---------------------------- MODULE Spec2Model ----------------------------
(***************************************************************************)
(* BigFoot: the commit store (bigfoot/database.py) and the analytics      *)
(* engine that reads it (bigfoot/dashboard.py).                            *)
(*                                                                         *)
(* Representation.                                                         *)
(*  - A datetime.date is its day ordinal, an integer; ordinal 0 is         *)
(*    2024-01-01.  timedelta arithmetic is integer arithmetic on it.       *)
(*  - An ISO date string 'YYYY-MM-DD' is the tuple <<Y, M, D>>; the        *)
(*    string order SQLite and Python use on it is the lexicographic order  *)
(*    of the tuple (all strings are zero padded, as isoformat and          *)
(*    strftime('%Y-%m-%d') produce them).                                  *)
(*  - A Python float that results from dividing integers is the exact      *)
(*    fraction [num, den] with den > 0; rounding of the binary float is    *)
(*    not modelled.                                                        *)
(*  - The commits table is a set of rows.  The columns id and collected_at *)
(*    are left out: no SELECT of the program reads them.                   *)
(*  - The tables streaks and rewards have no uniqueness constraint; each   *)
(*    is the sequence of its rows in order of insertion (the position is   *)
(*    the AUTOINCREMENT id).                                               *)
(***************************************************************************)
EXTENDS Integers, Sequences, FiniteSets, TLC

VARIABLES
    commits,   \* rows of table commits
    streaks,   \* rows of table streaks
    rewards,   \* rows of table rewards
    call,      \* the operation called last, with its (resolved) arguments
    ret,       \* what that operation returned
    kept       \* the result the caller holds on to, with the call and the
               \* tables it came from

vars == <<commits, streaks, rewards, call, ret, kept>>

None == "None"      \* Python's None as a return value
Missing == -1       \* a key absent from a commit dictionary
NoDate == <<>>      \* None passed for a date string

----------------------------------------------------------------------------
(* Bounds of the model.                                                    *)

MaxRows == 3         \* rows the commits table may hold
MaxDay == 3          \* saved rows carry dates of ordinals 0..MaxDay
MaxCount == 1        \* a saved row's count is in 0..MaxCount
MaxStreakRows == 4   \* rows of the table under the streak operations
MaxStreakDay == 4    \* their dates are of ordinals 0..MaxStreakDay
MaxSaveRows == 2     \* rows of the table where save_commits is examined
MaxHistoryRows == 2  \* rows of the table under the historical charts

Repos == {"r1", "r2"}

----------------------------------------------------------------------------
(* The calendar: datetime.date, isoformat, strptime.                       *)

Years == 2022..2025

IsLeap(y) == (y % 4 = 0) /\ ((y % 100 # 0) \/ (y % 400 = 0))

DaysInMonth(y, m) ==
    IF m = 2 THEN (IF IsLeap(y) THEN 29 ELSE 28)
    ELSE IF m \in {4, 6, 9, 11} THEN 30 ELSE 31

DaysInYear(y) == IF IsLeap(y) THEN 366 ELSE 365

RECURSIVE DaysBeforeMonth(_, _)
DaysBeforeMonth(y, m) ==
    IF m <= 1 THEN 0 ELSE DaysBeforeMonth(y, m - 1) + DaysInMonth(y, m - 1)

\* ordinal of January 1st of year y (0 for 2024)
RECURSIVE DaysBeforeYear(_)
DaysBeforeYear(y) ==
    IF y = 2024 THEN 0
    ELSE IF y > 2024 THEN DaysBeforeYear(y - 1) + DaysInYear(y - 1)
    ELSE DaysBeforeYear(y + 1) - DaysInYear(y)

\* the ordinal of the date <<y, m, d>>
OrdinalOf(s) == DaysBeforeYear(s[1]) + DaysBeforeMonth(s[1], s[2]) + s[3] - 1

\* the year, month and day of the date of ordinal o
YmdOf(o) ==
    LET y == CHOOSE yy \in Years :
                 DaysBeforeYear(yy) <= o /\ o < DaysBeforeYear(yy) + DaysInYear(yy)
        r == o - DaysBeforeYear(y)
        m == CHOOSE mm \in 1..12 :
                 DaysBeforeMonth(y, mm) <= r /\ r < DaysBeforeMonth(y, mm) + DaysInMonth(y, mm)
    IN  <<y, m, r - DaysBeforeMonth(y, m) + 1>>

\* the dates the model computes with: 2023-07-01 .. 2024-03-31
MinOrdinal == 0 - 184
MaxOrdinal == 90
Calendar == [o \in MinOrdinal..MaxOrdinal |-> YmdOf(o)]

\* date.isoformat() / strftime('%Y-%m-%d'): the ISO string of a date
isoformat(o) == Calendar[o]

\* datetime.strptime(s, '%Y-%m-%d').date(): the date of an ISO string
strptime(s) == OrdinalOf(s)

\* string comparison a < b and a <= b of two ISO date strings
StrLT(a, b) ==
    \/ a[1] < b[1]
    \/ a[1] = b[1] /\ a[2] < b[2]
    \/ a[1] = b[1] /\ a[2] = b[2] /\ a[3] < b[3]

StrLE(a, b) == a = b \/ StrLT(a, b)

----------------------------------------------------------------------------
(* Fractions standing for Python floats.                                   *)

Frac(n, d) == [num |-> n, den |-> d]
FracEq(a, b) == a.num * b.den = b.num * a.den
FracLT(a, b) == a.num * b.den < b.num * a.den
FracNorm(n, d) == IF d < 0 THEN Frac(0 - n, 0 - d) ELSE Frac(n, d)
FracSub(a, b) == Frac(a.num * b.den - b.num * a.den, a.den * b.den)
FracDiv(a, b) == FracNorm(a.num * b.den, a.den * b.num)
FracTimesInt(a, k) == Frac(a.num * k, a.den)
FracAbs(a) == Frac(IF a.num < 0 THEN 0 - a.num ELSE a.num, a.den)
\* min(1.0, a)
FracMinOne(a) == IF a.num > a.den THEN Frac(1, 1) ELSE a

----------------------------------------------------------------------------
(* Table commits and save_commits.                                         *)

\* the sum of column count over a set of rows
RECURSIVE SumCount(_)
SumCount(rows) ==
    IF rows = {} THEN 0
    ELSE LET r == CHOOSE x \in rows : TRUE IN r.count + SumCount(rows \ {r})

\* a row: repo, date (ISO string), count, lines_added, lines_deleted
Row(r, d, c, la, ld) ==
    [repo |-> r, date |-> d, count |-> c, lines_added |-> la, lines_deleted |-> ld]

\* commit.get('lines_added', 0)
GetOr(v, default) == IF v = Missing THEN default ELSE v

\* an upsert that adds the new values to the row it finds
InsertOrAdd(table, commit) ==
    LET old == { row \in table : row.repo = commit.repo /\ row.date = commit.date }
        c == SumCount(old)
    IN  (table \ old)
          \cup { Row(commit.repo, commit.date, commit.count + c,
                     GetOr(commit.lines_added, 0), GetOr(commit.lines_deleted, 0)) }

\* one INSERT OR REPLACE under UNIQUE(repo, date): the conflicting rows are
\* deleted, then the new row is inserted
InsertOrReplace(table, commit) ==
    { row \in table : ~(row.repo = commit.repo /\ row.date = commit.date) }
      \cup { Row(commit.repo, commit.date, commit.count,
                 GetOr(commit.lines_added, 0), GetOr(commit.lines_deleted, 0)) }

\* the loop of save_commits over the list commits
RECURSIVE SaveAll(_, _)
SaveAll(table, batch) ==
    IF batch = <<>> THEN table
    ELSE SaveAll(InsertOrReplace(table, Head(batch)), Tail(batch))

----------------------------------------------------------------------------
(* Queries of class Database.                                              *)

\* SELECT SUM(count): <<>> stands for NULL (no row selected)
SqlSumCount(rows) == IF rows = {} THEN <<>> ELSE <<SumCount(rows)>>

\* result[0] if result[0] is not None else 0
ZeroIfNull(result) == IF result = <<>> THEN 0 ELSE result[1]

get_total_commits_by_date(table, target_date) ==
    ZeroIfNull(SqlSumCount({ r \in table : r.date = target_date }))

\* WHERE date BETWEEN ? AND ? compares the strings
Between(d, start_date, end_date) == StrLE(start_date, d) /\ StrLE(d, end_date)

get_weekly_commits(table, start_date, end_date) ==
    ZeroIfNull(SqlSumCount({ r \in table : Between(r.date, start_date, end_date) }))

\* Database.get_commits_by_date_range: the rows selected (their order plays
\* no part in what the callers compute)
get_commits_by_date_range(table, start_date, end_date) ==
    { r \in table : Between(r.date, start_date, end_date) }

\* SELECT DISTINCT date FROM commits WHERE count > 0
ActiveDates(table) == { r.date : r \in { x \in table : x.count > 0 } }

\* ORDER BY date DESC / ASC of a set of date strings
RECURSIVE OrderDesc(_)
OrderDesc(ds) ==
    IF ds = {} THEN <<>>
    ELSE LET m == CHOOSE x \in ds : \A y \in ds : StrLE(y, x)
         IN  <<m>> \o OrderDesc(ds \ {m})

RECURSIVE OrderAsc(_)
OrderAsc(ds) ==
    IF ds = {} THEN <<>>
    ELSE LET m == CHOOSE x \in ds : \A y \in ds : StrLE(x, y)
         IN  <<m>> \o OrderAsc(ds \ {m})

\* the for loop of calculate_streak from position i of commit_dates
RECURSIVE StreakLoop(_, _, _, _)
StreakLoop(commit_dates, i, streak, current_date) ==
    IF i > Len(commit_dates) THEN streak
    ELSE IF commit_dates[i] = current_date
         THEN StreakLoop(commit_dates, i + 1, streak + 1,
                         isoformat(strptime(current_date) - 1))
         ELSE streak

calculate_streak(table, target_date) ==
    LET commit_dates == OrderDesc(ActiveDates(table))
    IN  IF commit_dates = <<>> THEN 0
        ELSE StreakLoop(commit_dates, 1, 0, target_date)

----------------------------------------------------------------------------
(* DashboardAnalytics: streaks.                                            *)

Max2(a, b) == IF a >= b THEN a ELSE b

\* LongestLoop without the reset of current_streak at a gap
RECURSIVE LongestLoopNoReset(_, _, _, _)
LongestLoopNoReset(commit_dates, i, max_streak, current_streak) ==
    IF i > Len(commit_dates) THEN max_streak
    ELSE LET prev_date == strptime(commit_dates[i - 1])
             curr_date == strptime(commit_dates[i])
         IN  IF curr_date - prev_date = 1
             THEN LongestLoopNoReset(commit_dates, i + 1,
                      Max2(max_streak, current_streak + 1), current_streak + 1)
             ELSE LongestLoopNoReset(commit_dates, i + 1, max_streak, current_streak)

\* the for loop of _get_longest_streak from index i (1-based) of commit_dates
RECURSIVE LongestLoop(_, _, _, _)
LongestLoop(commit_dates, i, max_streak, current_streak) ==
    IF i > Len(commit_dates) THEN max_streak
    ELSE LET prev_date == strptime(commit_dates[i - 1])
             curr_date == strptime(commit_dates[i])
         IN  IF curr_date - prev_date = 1
             THEN LongestLoop(commit_dates, i + 1,
                              Max2(max_streak, current_streak + 1), current_streak + 1)
             ELSE LongestLoop(commit_dates, i + 1, max_streak, 1)

\* _get_longest_streak with max_streak starting at 0
_get_longest_streak_from_zero(table) ==
    LET commit_dates == OrderAsc(ActiveDates(table))
    IN  IF commit_dates = <<>> THEN 0
        ELSE LongestLoop(commit_dates, 2, 0, 1)

_get_longest_streak(table) ==
    LET commit_dates == OrderAsc(ActiveDates(table))
    IN  IF commit_dates = <<>> THEN 0
        ELSE LongestLoop(commit_dates, 2, 1, 1)

milestones == <<7, 14, 21, 30, 50, 75, 100, 200, 365>>

\* next((m for m in milestones if m > current_streak), 1000)
NextMilestone(current_streak) ==
    IF \E i \in 1..Len(milestones) : milestones[i] > current_streak
    THEN milestones[CHOOSE i \in 1..Len(milestones) :
                      /\ milestones[i] > current_streak
                      /\ \A j \in 1..(i - 1) : ~(milestones[j] > current_streak)]
    ELSE 1000

get_streak_data(table, target_date) ==
    LET current_streak == calculate_streak(table, target_date)
        longest_streak == _get_longest_streak(table)
        next_milestone == NextMilestone(current_streak)
        today_commits == get_total_commits_by_date(table, target_date)
    IN  [current_streak |-> current_streak,
         longest_streak |-> longest_streak,
         next_milestone |-> next_milestone,
         goal_progress |-> IF next_milestone > 0
                           THEN Frac(current_streak, next_milestone)
                           ELSE Frac(1, 1),
         days_to_milestone |-> next_milestone - current_streak,
         is_active_today |-> today_commits > 0]

----------------------------------------------------------------------------
(* DashboardAnalytics: momentum.                                           *)

STARTING == "starting"
BUILDING == "building"
CRUSHING == "crushing"
LEGENDARY == "legendary"

\* daily_avg >= k for the float daily_avg and the integer k
FracGEInt(f, k) == f.num >= k * f.den

\* a cascade whose Crushing level asks for a daily average of 3
_categorize_performance_avg3(week_commits, consistency, daily_avg) ==
    IF week_commits >= 50 /\ consistency >= 6 /\ FracGEInt(daily_avg, 7)
    THEN LEGENDARY
    ELSE IF week_commits >= 25 /\ consistency >= 5 /\ FracGEInt(daily_avg, 3)
    THEN CRUSHING
    ELSE IF week_commits >= 10 /\ consistency >= 3 /\ FracGEInt(daily_avg, 2)
    THEN BUILDING
    ELSE STARTING

_categorize_performance(week_commits, consistency, daily_avg) ==
    IF week_commits >= 50 /\ consistency >= 6 /\ FracGEInt(daily_avg, 7)
    THEN LEGENDARY
    ELSE IF week_commits >= 25 /\ consistency >= 5 /\ FracGEInt(daily_avg, 4)
    THEN CRUSHING
    ELSE IF week_commits >= 10 /\ consistency >= 3 /\ FracGEInt(daily_avg, 2)
    THEN BUILDING
    ELSE STARTING

\* sum(q[1..n]) and sum(q)
RECURSIVE SumTo(_, _)
SumTo(q, n) == IF n = 0 THEN 0 ELSE SumTo(q, n - 1) + q[n]

SumSeq(q) == SumTo(q, Len(q))

\* a change that is 100 after any week without commits
WeekChangeUpFromNothing(this_week_commits, last_week_commits) ==
    IF last_week_commits > 0
    THEN Frac((this_week_commits - last_week_commits) * 100, last_week_commits)
    ELSE Frac(100, 1)

\* a change relative to this week instead of last week
WeekChangeOfThisWeek(this_week_commits, last_week_commits) ==
    IF last_week_commits > 0
    THEN FracNorm((this_week_commits - last_week_commits) * 100, this_week_commits)
    ELSE IF this_week_commits > 0 THEN Frac(100, 1) ELSE Frac(0, 1)

\* the week-over-week change of calculate_momentum
WeekChange(this_week_commits, last_week_commits) ==
    IF last_week_commits > 0
    THEN Frac((this_week_commits - last_week_commits) * 100, last_week_commits)
    ELSE IF this_week_commits > 0 THEN Frac(100, 1) ELSE Frac(0, 1)

\* a trend that ends the day before end_date
TrendDayShifted(end_date, days, i) == end_date - (days - i)

\* day = end_date - timedelta(days=days-1-i)
TrendDay(end_date, days, i) == end_date - (days - 1 - i)

\* week_start = end_date - timedelta(days=6)
WeekStart(end_date) == end_date - 6

\* a last week that ends on the first day of this week
LastWeekEndOverlapping(week_start) == week_start

\* last_week_end = week_start - timedelta(days=1)
LastWeekEnd(week_start) == week_start - 1

\* last_week_start = last_week_end - timedelta(days=6)
LastWeekStart(last_week_end) == last_week_end - 6

\* the default of the parameter days of calculate_momentum
DefaultDays == 7

calculate_momentum(table, target_date, days) ==
    LET end_date == strptime(target_date)
        week_start == WeekStart(end_date)
        this_week_commits ==
            get_weekly_commits(table, isoformat(week_start), isoformat(end_date))
        last_week_end == LastWeekEnd(week_start)
        last_week_start == LastWeekStart(last_week_end)
        last_week_commits ==
            get_weekly_commits(table, isoformat(last_week_start), isoformat(last_week_end))
        week_change == WeekChange(this_week_commits, last_week_commits)
        \* i runs over range(days); the sequence index is i + 1
        daily_trend ==
            [k \in 1..days |->
                get_total_commits_by_date(table, isoformat(TrendDay(end_date, days, k - 1)))]
        consistency_days == Cardinality({ k \in 1..days : daily_trend[k] > 0 })
        average_daily ==
            IF daily_trend # <<>> THEN Frac(SumSeq(daily_trend), Len(daily_trend))
            ELSE Frac(0, 1)
    IN  [this_week_commits |-> this_week_commits,
         last_week_commits |-> last_week_commits,
         week_over_week_change |-> week_change,
         daily_trend |-> daily_trend,
         average_daily |-> average_daily,
         consistency_score |-> consistency_days,
         performance_level |->
             _categorize_performance(this_week_commits, consistency_days, average_daily)]

----------------------------------------------------------------------------
(* DashboardAnalytics: hall of fame.                                       *)

\* the sum of lines_added + lines_deleted over a set of rows
RECURSIVE SumLines(_)
SumLines(rows) ==
    IF rows = {} THEN 0
    ELSE LET r == CHOOSE x \in rows : TRUE
         IN  r.lines_added + r.lines_deleted + SumLines(rows \ {r})

_get_daily_lines(table, target_date) ==
    LET rows == { r \in table : r.date = target_date }
    IN  ZeroIfNull(IF rows = {} THEN <<>> ELSE <<SumLines(rows)>>)

\* SELECT date, SUM(count) ... GROUP BY date
DailyCommits(table) ==
    { [date |-> d, value |-> SumCount({ r \in table : r.date = d })] :
        d \in { r.date : r \in table } }

\* SELECT date, SUM(lines_added + lines_deleted) ... GROUP BY date
DailyLines(table) ==
    { [date |-> d, value |-> SumLines({ r \in table : r.date = d })] :
        d \in { r.date : r \in table } }

RECURSIVE SumValue(_)
SumValue(groups) ==
    IF groups = {} THEN 0
    ELSE LET g == CHOOSE x \in groups : TRUE IN g.value + SumValue(groups \ {g})

\* the window function with a frame of the row and the 2 rows before it
WeekWindowsThreeRows(table) ==
    LET daily == DailyCommits(table)
        Frame(g) ==
            { e \in daily :
                /\ StrLE(e.date, g.date)
                /\ Cardinality({ x \in daily : StrLT(e.date, x.date) /\ StrLE(x.date, g.date) })
                       <= 2 }
    IN  { [date |-> g.date, value |-> SumValue(Frame(g))] : g \in daily }

\* SUM(count) OVER (ORDER BY date ROWS BETWEEN 6 PRECEDING AND CURRENT ROW) on
\* the rows grouped by date: the frame of a row is that row and the 6 rows
\* before it in date order
WeekWindows(table) ==
    LET daily == DailyCommits(table)
        Frame(g) ==
            { e \in daily :
                /\ StrLE(e.date, g.date)
                /\ Cardinality({ x \in daily : StrLT(e.date, x.date) /\ StrLE(x.date, g.date) })
                       <= 6 }
    IN  { [date |-> g.date, value |-> SumValue(Frame(g))] : g \in daily }

\* ORDER BY value DESC LIMIT 1, fetchone(): <<>> when there is no row, else a
\* row with the greatest value; SQL leaves open which one of several
FetchBest(groups) ==
    IF groups = {} THEN { <<>> }
    ELSE { <<g.date, g.value>> :
             g \in { x \in groups : \A y \in groups : y.value <= x.value } }

PersonalRecord(record_type, value, date, description) ==
    [record_type |-> record_type, value |-> value, date |-> date,
     description |-> description]

\* a hall of fame that chases the record of the best week
get_hall_of_fame_week_chase(table, target_date, best_commits_row, best_lines_row, best_week_row) ==
    LET best_commits_record ==
            IF best_commits_row # <<>>
            THEN PersonalRecord("daily_commits", best_commits_row[2], best_commits_row[1],
                                <<best_commits_row[2], "commits in one day">>)
            ELSE PersonalRecord("daily_commits", 0, target_date, <<"No commits yet">>)
        best_lines_record ==
            IF best_lines_row # <<>>
            THEN PersonalRecord("daily_lines", best_lines_row[2], best_lines_row[1],
                                <<best_lines_row[2], "lines in one day">>)
            ELSE PersonalRecord("daily_lines", 0, target_date, <<"No lines yet">>)
        best_week_record ==
            IF best_week_row # <<>>
            THEN PersonalRecord("weekly_commits", best_week_row[2], best_week_row[1],
                                <<best_week_row[2], "commits in one week">>)
            ELSE PersonalRecord("weekly_commits", 0, target_date, <<"No weekly data yet">>)
        current_day_commits == get_total_commits_by_date(table, target_date)
        current_day_lines == _get_daily_lines(table, target_date)
    IN  [best_single_day_commits |-> best_commits_record,
         best_single_day_lines |-> best_lines_record,
         best_week_commits |-> best_week_record,
         current_day_commits |-> current_day_commits,
         current_day_lines |-> current_day_lines,
         days_until_record |-> 0,
         record_chase_progress |->
             IF best_week_record.value > 0
             THEN FracMinOne(Frac(current_day_commits, best_week_record.value))
             ELSE Frac(0, 1)]

\* get_hall_of_fame once the three queries fetched their rows
get_hall_of_fame(table, target_date, best_commits_row, best_lines_row, best_week_row) ==
    LET best_commits_record ==
            IF best_commits_row # <<>>
            THEN PersonalRecord("daily_commits", best_commits_row[2], best_commits_row[1],
                                <<best_commits_row[2], "commits in one day">>)
            ELSE PersonalRecord("daily_commits", 0, target_date, <<"No commits yet">>)
        best_lines_record ==
            IF best_lines_row # <<>>
            THEN PersonalRecord("daily_lines", best_lines_row[2], best_lines_row[1],
                                <<best_lines_row[2], "lines in one day">>)
            ELSE PersonalRecord("daily_lines", 0, target_date, <<"No lines yet">>)
        best_week_record ==
            IF best_week_row # <<>>
            THEN PersonalRecord("weekly_commits", best_week_row[2], best_week_row[1],
                                <<best_week_row[2], "commits in one week">>)
            ELSE PersonalRecord("weekly_commits", 0, target_date, <<"No weekly data yet">>)
        current_day_commits == get_total_commits_by_date(table, target_date)
        current_day_lines == _get_daily_lines(table, target_date)
    IN  [best_single_day_commits |-> best_commits_record,
         best_single_day_lines |-> best_lines_record,
         best_week_commits |-> best_week_record,
         current_day_commits |-> current_day_commits,
         current_day_lines |-> current_day_lines,
         days_until_record |-> 0,
         record_chase_progress |->
             IF best_commits_record.value > 0
             THEN FracMinOne(Frac(current_day_commits, best_commits_record.value))
             ELSE Frac(0, 1)]

----------------------------------------------------------------------------
(* DashboardAnalytics: achievements.  The emoji of an achievement is left  *)
(* out.                                                                    *)

Achievement(id, name, description, unlocked_date, progress) ==
    [id |-> id, name |-> name, description |-> description,
     unlocked_date |-> unlocked_date, progress |-> progress]

\* an entry of achievement_defs; current is a float in two entries and an
\* integer in the others, and is held as a fraction in all
AchievementDef(id, name, description, threshold, current) ==
    [id |-> id, name |-> name, description |-> description,
     threshold |-> threshold, current |-> current]

\* max(0, f)
FracMaxZero(f) == IF f.num < 0 THEN Frac(0, 1) ELSE f

\* a loop body that unlocks an achievement when current is the threshold
MakeAchievementAtMilestone(achv, target_date) ==
    LET is_unlocked == FracEq(achv.current, Frac(achv.threshold, 1))
    IN  Achievement(achv.id, achv.name, achv.description,
                    IF is_unlocked THEN target_date ELSE NoDate,
                    IF is_unlocked THEN <<>>
                    ELSE <<FracMinOne(Frac(achv.current.num,
                                           achv.current.den * achv.threshold))>>)

\* the body of the loop over achievement_defs; progress None is <<>>, a
\* progress p is <<p>>
MakeAchievement(achv, target_date) ==
    LET is_unlocked == FracGEInt(achv.current, achv.threshold)
    IN  Achievement(achv.id, achv.name, achv.description,
                    IF is_unlocked THEN target_date ELSE NoDate,
                    IF is_unlocked THEN <<>>
                    ELSE <<FracMinOne(Frac(achv.current.num,
                                           achv.current.den * achv.threshold))>>)

\* get_achievements once get_hall_of_fame returned hall_of_fame
get_achievements(table, target_date, hall_of_fame) ==
    LET streak_data == get_streak_data(table, target_date)
        momentum == calculate_momentum(table, target_date, DefaultDays)
        streak == Frac(streak_data.current_streak, 1)
        day_commits == Frac(hall_of_fame.best_single_day_commits.value, 1)
        day_lines == Frac(hall_of_fame.best_single_day_lines.value, 1)
        achievement_defs == <<
            AchievementDef("first_step", "First Step", "Made your first commit", 1,
                Frac(Max2(streak_data.current_streak, streak_data.longest_streak), 1)),
            AchievementDef("fire_starter", "Fire Starter", "3 day coding streak", 3, streak),
            AchievementDef("consistent_coder", "Consistent Coder", "7 day coding streak", 7,
                streak),
            AchievementDef("streak_master", "Streak Master", "21 day coding streak", 21,
                streak),
            AchievementDef("code_warrior", "Code Warrior", "30 day coding streak", 30, streak),
            AchievementDef("commit_surge", "Commit Surge", "5 commits in one day", 5,
                day_commits),
            AchievementDef("commit_storm", "Commit Storm", "8 commits in one day", 8,
                day_commits),
            AchievementDef("commit_hurricane", "Commit Hurricane", "12 commits in one day", 12,
                day_commits),
            AchievementDef("commit_legend", "Commit Legend", "15 commits in one day", 15,
                day_commits),
            AchievementDef("line_crusher", "Line Crusher", "1,000 lines in one day", 1000,
                day_lines),
            AchievementDef("code_beast", "Code Beast", "5,000 lines in one day", 5000,
                day_lines),
            AchievementDef("coding_machine", "Coding Machine", "10,000 lines in one day", 10000,
                day_lines),
            AchievementDef("line_god", "Line God", "50,000 lines in one day", 50000, day_lines),
            AchievementDef("perfect_week", "Perfect Week", "7 days of coding in a row", 7,
                Frac(momentum.consistency_score, 1)),
            AchievementDef("momentum_builder", "Momentum Builder",
                "Increased weekly commits by 25%+", 25,
                FracMaxZero(momentum.week_over_week_change)) >>
    IN  [k \in 1..Len(achievement_defs) |-> MakeAchievement(achievement_defs[k], target_date)]

----------------------------------------------------------------------------
(* DashboardAnalytics: goals and heatmap.                                  *)

\* min(1.0, current / goal) if goal > 0 else 0
GoalRatio(current, goal) ==
    IF goal > 0 THEN FracMinOne(Frac(current, goal)) ELSE Frac(0, 1)

get_goal_progress(table, daily_goal, weekly_goal, monthly_goal, target_date) ==
    LET end_date == strptime(target_date)
        daily_current == get_total_commits_by_date(table, target_date)
        week_start == end_date - 6
        weekly_current ==
            get_weekly_commits(table, isoformat(week_start), isoformat(end_date))
        \* month_start = end_date.replace(day=1)
        month_start == OrdinalOf(<<target_date[1], target_date[2], 1>>)
        monthly_current ==
            get_weekly_commits(table, isoformat(month_start), isoformat(end_date))
    IN  [daily_goal |-> daily_goal, weekly_goal |-> weekly_goal,
         monthly_goal |-> monthly_goal,
         daily_current |-> daily_current, weekly_current |-> weekly_current,
         monthly_current |-> monthly_current,
         daily_progress |-> GoalRatio(daily_current, daily_goal),
         weekly_progress |-> GoalRatio(weekly_current, weekly_goal),
         monthly_progress |-> GoalRatio(monthly_current, monthly_goal)]

\* the default of the parameter days of generate_heatmap_data
DefaultHeatmapDays == 30

\* the dictionary date -> commits of the days start_date..end_date
generate_heatmap_data(table, days, target_date) ==
    LET end_date == strptime(target_date)
        start_date == end_date - (days - 1)
        selected == get_commits_by_date_range(table, isoformat(start_date),
                                              isoformat(end_date))
    IN  [date_str \in { isoformat(current) : current \in start_date..end_date } |->
            SumCount({ commit \in selected : commit.date = date_str })]

----------------------------------------------------------------------------
(* DashboardAnalytics: historical charts.                                  *)

HistoricalPeriod(label, start_date, end_date, commits_count, period_type) ==
    [label |-> label, start_date |-> start_date, end_date |-> end_date,
     commits |-> commits_count, period_type |-> period_type]

\* max(q) of a non-empty list
MaxSeq(q) == CHOOSE m \in { q[k] : k \in 1..Len(q) } : \A k \in 1..Len(q) : q[k] <= m

\* a trend that reports the signed change
_calculate_trend_signed(values) ==
    IF Len(values) < 2 THEN <<"stable", Frac(0, 1)>>
    ELSE LET midpoint == Len(values) \div 2
             first_half_avg ==
                 IF midpoint > 0
                 THEN Frac(SumSeq(SubSeq(values, 1, midpoint)), midpoint)
                 ELSE Frac(0, 1)
             second_half_avg ==
                 Frac(SumSeq(SubSeq(values, midpoint + 1, Len(values))),
                      Len(values) - midpoint)
             percentage_change ==
                 FracTimesInt(FracDiv(FracSub(second_half_avg, first_half_avg),
                                      first_half_avg), 100)
         IN  IF first_half_avg.num = 0
             THEN IF second_half_avg.num > 0
                  THEN <<"up", Frac(100, 1)>>
                  ELSE <<"stable", Frac(0, 1)>>
             ELSE IF FracLT(Frac(10, 1), percentage_change)
                  THEN <<"up", percentage_change>>
                  ELSE IF FracLT(percentage_change, Frac(0 - 10, 1))
                       THEN <<"down", percentage_change>>
                       ELSE <<"stable", percentage_change>>

_calculate_trend(values) ==
    IF Len(values) < 2 THEN <<"stable", Frac(0, 1)>>
    ELSE LET midpoint == Len(values) \div 2
             first_half_avg ==
                 IF midpoint > 0
                 THEN Frac(SumSeq(SubSeq(values, 1, midpoint)), midpoint)
                 ELSE Frac(0, 1)
             second_half_avg ==
                 Frac(SumSeq(SubSeq(values, midpoint + 1, Len(values))),
                      Len(values) - midpoint)
             percentage_change ==
                 FracTimesInt(FracDiv(FracSub(second_half_avg, first_half_avg),
                                      first_half_avg), 100)
         IN  IF first_half_avg.num = 0
             THEN IF second_half_avg.num > 0
                  THEN <<"up", Frac(100, 1)>>
                  ELSE <<"stable", Frac(0, 1)>>
             ELSE IF FracLT(Frac(10, 1), percentage_change)
                  THEN <<"up", percentage_change>>
                  ELSE IF FracLT(percentage_change, Frac(0 - 10, 1))
                       THEN <<"down", FracAbs(percentage_change)>>
                       ELSE <<"stable", FracAbs(percentage_change)>>

_calculate_historical_metrics(periods, chart_type, date_range_label) ==
    IF periods = <<>>
    THEN [periods |-> <<>>, chart_type |-> chart_type, total_commits |-> 0,
          peak_commits |-> 0, average_commits |-> Frac(0, 1),
          trend_direction |-> "stable", trend_percentage |-> Frac(0, 1),
          date_range_label |-> date_range_label]
    ELSE LET commit_counts == [k \in 1..Len(periods) |-> periods[k].commits]
             total_commits == SumSeq(commit_counts)
             trend == _calculate_trend(commit_counts)
         IN  [periods |-> periods, chart_type |-> chart_type,
              total_commits |-> total_commits,
              peak_commits |-> MaxSeq(commit_counts),
              average_commits |-> Frac(total_commits, Len(periods)),
              trend_direction |-> trend[1], trend_percentage |-> trend[2],
              date_range_label |-> date_range_label]

\* a loop that stops before end_date
DailyPeriodsBeforeEnd(raw_data, start_date, end_date) ==
    LET Period(current_date) ==
            LET date_str == isoformat(current_date)
                commits_count == SumCount({ r \in raw_data : r.date = date_str })
                label == <<date_str[2], date_str[3]>>
            IN  HistoricalPeriod(label, date_str, date_str, commits_count, "daily")
    IN  [k \in 1..(end_date - start_date) |-> Period(start_date + (k - 1))]

\* the periods the while loop of _get_daily_historical_data appends: one for
\* each current_date from start_date while current_date <= end_date
DailyPeriods(raw_data, start_date, end_date) ==
    LET Period(current_date) ==
            LET date_str == isoformat(current_date)
                \* commits_by_date.get(date_str, 0)
                commits_count == SumCount({ r \in raw_data : r.date = date_str })
                \* strftime("%b %d")
                label == <<date_str[2], date_str[3]>>
            IN  HistoricalPeriod(label, date_str, date_str, commits_count, "daily")
    IN  [k \in 1..(end_date - start_date + 1) |-> Period(start_date + (k - 1))]

_get_daily_historical_data(table, days, today) ==
    LET end_date == today
        start_date == end_date - (days - 1)
        raw_data == get_commits_by_date_range(table, isoformat(start_date),
                                              isoformat(end_date))
    IN  _calculate_historical_metrics(DailyPeriods(raw_data, start_date, end_date),
                                      "daily", <<"Last", days, "days">>)

\* periods.reverse()
Reverse(q) == [k \in 1..Len(q) |-> q[Len(q) + 1 - k]]

\* weeks that step back six days at a time
WeekEndSixDays(today, week_offset) == today - week_offset * 6

\* week_end = date.today() - timedelta(days=week_offset*7)
WeekEnd(today, week_offset) == today - week_offset * 7

_get_weekly_historical_data(table, weeks, today) ==
    LET Period(week_offset) ==
            LET week_end == WeekEnd(today, week_offset)
                week_start == week_end - 6
            IN  HistoricalPeriod(<<"W", weeks - week_offset>>,
                                 isoformat(week_start), isoformat(week_end),
                                 get_weekly_commits(table, isoformat(week_start),
                                                    isoformat(week_end)),
                                 "weekly")
        \* week_offset runs over range(weeks); the sequence index is offset + 1
        periods == [k \in 1..weeks |-> Period(k - 1)]
    IN  _calculate_historical_metrics(Reverse(periods), "weekly",
                                      <<"Last", weeks, "weeks">>)

\* d.replace(day=n)
ReplaceDay(o, n) == OrdinalOf(<<isoformat(o)[1], isoformat(o)[2], n>>)

\* a month earlier taken as thirty days earlier
MonthsBackThirtyDays(o, n) == o - 30 * n

\* target_date.replace(day=1) - timedelta(days=1), applied n times
RECURSIVE MonthsBack(_, _)
MonthsBack(o, n) ==
    IF n = 0 THEN o ELSE MonthsBack(ReplaceDay(o, 1) - 1, n - 1)

_get_monthly_historical_data(table, months, today) ==
    LET current_date == today
        Period(month_offset) ==
            LET target_date == IF month_offset = 0 THEN current_date
                               ELSE MonthsBack(current_date, month_offset)
                month_start == ReplaceDay(target_date, 1)
                next_month == ReplaceDay(month_start, 28) + 4
                month_end ==
                    IF month_offset = 0 THEN current_date
                    ELSE ReplaceDay(
                             ReplaceDay(next_month - isoformat(next_month)[3], 1) + 31,
                             1) - 1
                monthly_commits ==
                    SumCount(get_commits_by_date_range(table, isoformat(month_start),
                                                       isoformat(month_end)))
                \* strftime("%B"), or strftime("%b %Y") for more than 12 months
                label == IF months > 12
                         THEN <<"b", isoformat(target_date)[2], isoformat(target_date)[1]>>
                         ELSE <<"B", isoformat(target_date)[2]>>
            IN  HistoricalPeriod(label, isoformat(month_start), isoformat(month_end),
                                 monthly_commits, "monthly")
        periods == [k \in 1..months |-> Period(k - 1)]
    IN  _calculate_historical_metrics(Reverse(periods), "monthly",
                                      <<"Last", months, "months">>)

\* periods or n: n for None and for 0
OrDefault(periods, n) == IF periods = Missing \/ periods = 0 THEN n ELSE periods

\* a get_historical_data that takes any other chart type for 'daily'
get_historical_data_or_daily(table, chart_type, periods, today) ==
    IF chart_type = "weekly"
    THEN _get_weekly_historical_data(table, OrDefault(periods, 13), today)
    ELSE IF chart_type = "monthly"
    THEN _get_monthly_historical_data(table, OrDefault(periods, 3), today)
    ELSE _get_daily_historical_data(table, OrDefault(periods, 90), today)

\* get_historical_data when the clock shows today; a ValueError is the
\* record [raised |-> "ValueError"]
get_historical_data(table, chart_type, periods, today) ==
    IF chart_type = "daily"
    THEN _get_daily_historical_data(table, OrDefault(periods, 90), today)
    ELSE IF chart_type = "weekly"
    THEN _get_weekly_historical_data(table, OrDefault(periods, 13), today)
    ELSE IF chart_type = "monthly"
    THEN _get_monthly_historical_data(table, OrDefault(periods, 3), today)
    ELSE [raised |-> "ValueError", chart_type |-> chart_type]

----------------------------------------------------------------------------
(* LocalGitTracker.backfill_history.  What git reports is the function     *)
(* scan: scan[<<repo, day>>] is the number of commits get_commits_for_date *)
(* finds in the repository on the day.  The repositories have different    *)
(* base names.                                                             *)

\* generate_date_range(days, reverse=True): the last days dates, oldest first
generate_date_range(days, today) == [k \in 1..days |-> isoformat(today - (days - k))]

\* the line totals get_commit_stats adds up for commit_count commits
ScannedLinesAdded(commit_count) == 5 * commit_count
ScannedLinesDeleted(commit_count) == commit_count

\* commit_data of a repository and date with commit_count commits
CommitData(repo_name, current_date, commit_count) ==
    [repo |-> repo_name, date |-> current_date, count |-> commit_count,
     lines_added |-> ScannedLinesAdded(commit_count),
     lines_deleted |-> ScannedLinesDeleted(commit_count)]

\* _check_existing_data: SELECT COUNT(*) ... WHERE repo = ? AND date = ? > 0
_check_existing_data(table, repo_name, current_date) ==
    \E row \in table : row.repo = repo_name /\ row.date = current_date

\* the statistics and the table before the first date
BackfillStart(table) ==
    [table |-> table, total_commits_found |-> 0, total_database_entries |-> 0,
     errors |-> <<>>]

\* a backfill that saves what it scans without the check for existing data
BackfillRepoNoSkip(acc, repo_name, current_date, commit_count, dry_run, force) ==
    IF commit_count = 0
    THEN acc
    ELSE IF dry_run
    THEN [acc EXCEPT !.total_database_entries = @ + 1,
                     !.total_commits_found = @ + commit_count]
    ELSE IF force
    THEN [acc EXCEPT !.errors = Append(@, <<repo_name, "AttributeError">>)]
    ELSE [acc EXCEPT !.table = SaveAll(@, <<CommitData(repo_name, current_date, commit_count)>>),
                     !.total_database_entries = @ + 1,
                     !.total_commits_found = @ + commit_count]

\* the body of the loop over the repositories for one date.  In force mode
\* the call self.database.delete_commit_data raises AttributeError (class
\* Database defines no such method); except Exception records it and the
\* loop goes on to the next repository: nothing is saved or counted.
BackfillRepo(acc, repo_name, current_date, commit_count, dry_run, force) ==
    IF ~force /\ ~dry_run /\ _check_existing_data(acc.table, repo_name, current_date)
    THEN acc
    ELSE IF commit_count = 0
    THEN acc
    ELSE IF dry_run
    THEN [acc EXCEPT !.total_database_entries = @ + 1,
                     !.total_commits_found = @ + commit_count]
    ELSE IF force
    THEN [acc EXCEPT !.errors = Append(@, <<repo_name, "AttributeError">>)]
    ELSE [acc EXCEPT !.table = SaveAll(@, <<CommitData(repo_name, current_date, commit_count)>>),
                     !.total_database_entries = @ + 1,
                     !.total_commits_found = @ + commit_count]

\* the loops over date_range and repos from date index d and repo index i
RECURSIVE BackfillLoop(_, _, _, _, _, _, _, _)
BackfillLoop(acc, date_range, repos, d, i, scan, dry_run, force) ==
    IF d > Len(date_range) THEN acc
    ELSE IF i > Len(repos)
    THEN BackfillLoop(acc, date_range, repos, d + 1, 1, scan, dry_run, force)
    ELSE BackfillLoop(
             BackfillRepo(acc, repos[i], date_range[d],
                          scan[<<repos[i], strptime(date_range[d])>>], dry_run, force),
             date_range, repos, d, i + 1, scan, dry_run, force)

\* backfill_history(days, dry_run, force) over the repositories repos: the
\* table it leaves and the dictionary it returns
backfill_history(table, days, repos, scan, dry_run, force, today) ==
    LET date_range == generate_date_range(days, today)
    IN  IF repos = <<>>
        THEN [table |-> table,
              result |-> [processed_days |-> Len(date_range), total_commits |-> 0,
                          database_entries |-> 0,
                          errors |-> << <<"", "No git repositories found">> >>]]
        ELSE LET acc == BackfillLoop(BackfillStart(table), date_range, repos, 1, 1,
                                     scan, dry_run, force)
             IN  [table |-> acc.table,
                  result |-> [processed_days |-> Len(date_range),
                              total_commits |-> acc.total_commits_found,
                              database_entries |-> acc.total_database_entries,
                              errors |-> acc.errors]]

----------------------------------------------------------------------------
(* LocalGitTracker.track_date.  A repository path is the pair of its       *)
(* directory and its base name; scan[path] is the number of commits        *)
(* get_commits_for_date finds in the repository on the date.  The e-mail   *)
(* addresses and the list of the commits are left out: total_commits is    *)
(* the length of that list.                                                *)

\* os.path.basename(repo_path)
basename(repo_path) == repo_path[2]

\* the files get_commit_stats counts for commit_count commits
ScannedFilesChanged(commit_count) == 2 * commit_count

\* repo_stat of a path with commit_count commits
RepoStat(repo_path, commit_count) ==
    [repo |-> basename(repo_path), repo_path |-> repo_path, count |-> commit_count,
     lines_added |-> ScannedLinesAdded(commit_count),
     lines_deleted |-> ScannedLinesDeleted(commit_count),
     files_changed |-> ScannedFilesChanged(commit_count)]

\* the loop over repos from index i: the table, repo_stats and the length
\* of all_commits
RECURSIVE TrackLoop(_, _, _, _, _)
TrackLoop(acc, repos, i, scan, target_date) ==
    IF i > Len(repos) THEN acc
    ELSE IF scan[repos[i]] = 0
    THEN TrackLoop(acc, repos, i + 1, scan, target_date)
    ELSE LET repo_stat == RepoStat(repos[i], scan[repos[i]])
         IN  TrackLoop(
                 [table |-> SaveAll(acc.table,
                                    << [repo |-> repo_stat.repo, date |-> target_date,
                                        count |-> repo_stat.count,
                                        lines_added |-> repo_stat.lines_added,
                                        lines_deleted |-> repo_stat.lines_deleted] >>),
                  repo_stats |-> Append(acc.repo_stats, repo_stat),
                  all_commits |-> acc.all_commits + scan[repos[i]]],
                 repos, i + 1, scan, target_date)

\* the loop that aggregates repo_stats by repository name, from index i;
\* aggregated_repos is held as the list of its values in insertion order
RECURSIVE AggregateLoop(_, _, _)
AggregateLoop(aggregated_repos, repo_stats, i) ==
    IF i > Len(repo_stats) THEN aggregated_repos
    ELSE LET stat == repo_stats[i]
             seen == { j \in 1..Len(aggregated_repos) : aggregated_repos[j].repo = stat.repo }
         IN  IF seen # {}
             THEN LET j == CHOOSE k \in seen : TRUE
                  IN  AggregateLoop(
                          [aggregated_repos EXCEPT
                              ![j].count = @ + stat.count,
                              ![j].lines_added = @ + stat.lines_added,
                              ![j].lines_deleted = @ + stat.lines_deleted,
                              ![j].files_changed = @ + stat.files_changed],
                          repo_stats, i + 1)
             ELSE AggregateLoop(
                      Append(aggregated_repos,
                             [repo |-> stat.repo, count |-> stat.count,
                              lines_added |-> stat.lines_added,
                              lines_deleted |-> stat.lines_deleted,
                              files_changed |-> stat.files_changed]),
                      repo_stats, i + 1)

\* track_date(target_date) over the repositories repos: the table it leaves
\* and the dictionary it returns
track_date(table, target_date, repos, scan) ==
    IF repos = <<>>
    THEN [table |-> table,
          result |-> [date |-> target_date, total_commits |-> 0, repositories |-> <<>>]]
    ELSE LET acc == TrackLoop([table |-> table, repo_stats |-> <<>>, all_commits |-> 0],
                              repos, 1, scan, target_date)
         IN  [table |-> acc.table,
              result |-> [date |-> target_date, total_commits |-> acc.all_commits,
                          repositories |-> AggregateLoop(<<>>, acc.repo_stats, 1)]]
----------------------------------------------------------------------------
(* RewardsEngine.  An achievement is the dictionary of its type, message,  *)
(* date and trigger; a message holds the number the f-string formats.      *)

\* date.weekday(): Monday is 0; 2024-01-01, of ordinal 0, is a Monday
weekday(o) == o % 7

\* _get_week_dates(target_date): the dates of Monday to Sunday of the week
\* that holds target_date
_get_week_dates(target_date) ==
    LET target == strptime(target_date)
        monday == target - weekday(target)
    IN  [k \in 1..7 |-> isoformat(monday + (k - 1))]

\* week_commits: the totals of the dates of week_dates added up
RECURSIVE WeekCommits(_, _, _)
WeekCommits(table, week_dates, n) ==
    IF n = 0 THEN 0
    ELSE WeekCommits(table, week_dates, n - 1)
             + get_total_commits_by_date(table, week_dates[n])

\* the weekly milestone
WeeklyMilestone == 50

\* _check_consistency_achievements(date)
_check_consistency_achievements(table, date) ==
    LET week_dates == _get_week_dates(date)
        week_commits == WeekCommits(table, week_dates, Len(week_dates))
    IN  IF week_commits >= WeeklyMilestone
        THEN << [type |-> "weekly_consistency",
                 message |-> <<week_commits, "commits this week! Consistent progress!">>,
                 date |-> date, triggered_by |-> "weekly_50_commits"] >>
        ELSE <<>>
\* the rows the two rewards queries select: date BETWEEN start_date AND
\* end_date, by the indices of the rows in the table
RecentRows(table, start_date, end_date) ==
    { i \in 1..Len(table) : Between(table[i].date, start_date, end_date) }

\* ORDER BY created_at DESC: the orders in which SQLite may return the rows
\* of indices rows; rows of the same second come in any order
OrderByCreatedAtDesc(table, rows) ==
    { f \in [1..Cardinality(rows) -> rows] :
        /\ \A j \in 1..Cardinality(rows), k \in 1..Cardinality(rows) :
               j # k => f[j] # f[k]
        /\ \A j \in 1..Cardinality(rows), k \in 1..Cardinality(rows) :
               j < k => table[f[j]].created_at >= table[f[k]].created_at }

\* get_recent_achievements(days) when the rows come in order
get_recent_achievements(table, order) == [k \in 1..Len(order) |-> table[order[k]]]

\* get_active_streak(): the dictionary of row result, None for no row
get_active_streak(table, result) ==
    IF result = 0 THEN None
    ELSE [start_date |-> table[result].start_date, end_date |-> table[result].end_date,
          length |-> table[result].length, type |-> table[result].type]

\* WHERE is_active = 1 ORDER BY created_at DESC LIMIT 1: the rows SQLite may
\* fetch, 0 for none
FetchActive(table) ==
    LET active == { i \in 1..Len(table) : table[i].is_active }
    IN  IF active = {} THEN {0}
        ELSE { i \in active : \A j \in active : table[j].created_at <= table[i].created_at }
----------------------------------------------------------------------------
(* The state machine.                                                      *)

\* no call is in progress
Idle == [op |-> "idle"]

\* the caller holds no result
Nothing == [call |-> Idle]

Init ==
    /\ commits = {}
    /\ streaks = <<>>
    /\ rewards = <<>>
    /\ call = Idle
    /\ ret = None
    /\ kept = Nothing

\* CURRENT_TIMESTAMP of the latest row of tables streaks and rewards, in
\* seconds; 0 when both are empty
LastStamp ==
    LET stamps == { streaks[i].created_at : i \in 1..Len(streaks) }
                      \cup { rewards[i].created_at : i \in 1..Len(rewards) } \cup {0}
    IN  CHOOSE m \in stamps : \A x \in stamps : x <= m

\* the caller takes the result; the next call can be made
Return ==
    /\ call # Idle
    /\ call' = Idle
    /\ ret' = None
    /\ UNCHANGED <<commits, streaks, rewards, kept>>

\* Database.save_commits(commits).  The commands that write (track, backfill)
\* are other runs of the program than the dashboard command: no result of
\* the dashboard is held when a table is written.
save_commits(batch) ==
    /\ call = Idle
    /\ commits' = SaveAll(commits, batch)
    /\ call' = [op |-> "save_commits", commits |-> batch]
    /\ ret' = None
    /\ kept' = Nothing
    /\ UNCHANGED <<streaks, rewards>>

\* target_date = date.today().isoformat() if target_date is None
Resolve(target_date, today) ==
    IF target_date = NoDate THEN isoformat(today) ELSE target_date

\* Database.calculate_streak(target_date), called when the clock shows today
CalculateStreak(target_date, today) ==
    LET t == Resolve(target_date, today)
    IN  /\ call = Idle
        /\ call' = [op |-> "calculate_streak", target_date |-> t]
        /\ ret' = calculate_streak(commits, t)
        /\ UNCHANGED <<commits, streaks, rewards, kept>>

\* DashboardAnalytics.get_streak_data(target_date)
GetStreakData(target_date, today) ==
    LET t == Resolve(target_date, today)
    IN  /\ call = Idle
        /\ call' = [op |-> "get_streak_data", target_date |-> t]
        /\ ret' = get_streak_data(commits, t)
        /\ UNCHANGED <<commits, streaks, rewards, kept>>

\* DashboardAnalytics.calculate_momentum(target_date, days)
CalculateMomentum(target_date, days, today) ==
    LET t == Resolve(target_date, today)
    IN  /\ call = Idle
        /\ call' = [op |-> "calculate_momentum", target_date |-> t, days |-> days]
        /\ ret' = calculate_momentum(commits, t, days)
        /\ UNCHANGED <<commits, streaks, rewards, kept>>

\* DashboardAnalytics.get_hall_of_fame(target_date)
GetHallOfFame(target_date, today) ==
    LET t == Resolve(target_date, today)
    IN  /\ call = Idle
        /\ call' = [op |-> "get_hall_of_fame", target_date |-> t]
        /\ \E best_commits_row \in FetchBest(DailyCommits(commits)),
              best_lines_row \in FetchBest(DailyLines(commits)),
              best_week_row \in FetchBest(WeekWindows(commits)) :
                ret' = get_hall_of_fame(commits, t, best_commits_row, best_lines_row,
                                        best_week_row)
        /\ UNCHANGED <<commits, streaks, rewards, kept>>

\* a get_achievements that records in table rewards what it found unlocked
GetAchievementsNoted(target_date, today) ==
    LET t == Resolve(target_date, today)
    IN  /\ call = Idle
        /\ call' = [op |-> "get_achievements", target_date |-> t]
        /\ \E best_commits_row \in FetchBest(DailyCommits(commits)),
              best_lines_row \in FetchBest(DailyLines(commits)),
              best_week_row \in FetchBest(WeekWindows(commits)) :
                ret' = get_achievements(commits, t,
                           get_hall_of_fame(commits, t, best_commits_row, best_lines_row,
                                            best_week_row))
        /\ rewards' = rewards \o
               [k \in 1..Cardinality({ j \in 1..Len(ret') : ret'[j].unlocked_date # NoDate }) |->
                   [type |-> "achievement", message |-> "unlocked", date |-> t,
                    triggered_by |-> "get_achievements", created_at |-> LastStamp]]
        /\ UNCHANGED <<commits, streaks, kept>>

\* DashboardAnalytics.get_achievements(target_date)
GetAchievements(target_date, today) ==
    LET t == Resolve(target_date, today)
    IN  /\ call = Idle
        /\ call' = [op |-> "get_achievements", target_date |-> t]
        /\ \E best_commits_row \in FetchBest(DailyCommits(commits)),
              best_lines_row \in FetchBest(DailyLines(commits)),
              best_week_row \in FetchBest(WeekWindows(commits)) :
                ret' = get_achievements(commits, t,
                           get_hall_of_fame(commits, t, best_commits_row, best_lines_row,
                                            best_week_row))
        /\ UNCHANGED <<commits, streaks, rewards, kept>>

\* DashboardAnalytics.get_historical_data(chart_type, periods); periods is
\* Missing when the argument is None
GetHistoricalData(chart_type, periods, today) ==
    /\ call = Idle
    /\ call' = [op |-> "get_historical_data", chart_type |-> chart_type,
                periods |-> periods, today |-> today]
    /\ ret' = get_historical_data(commits, chart_type, periods, today)
    /\ UNCHANGED <<commits, streaks, rewards, kept>>

\* DashboardAnalytics._categorize_performance(week_commits, consistency, daily_avg)
CategorizePerformance(week_commits, consistency, daily_avg) ==
    /\ call = Idle
    /\ call' = [op |-> "_categorize_performance", week_commits |-> week_commits,
                consistency |-> consistency, daily_avg |-> daily_avg]
    /\ ret' = _categorize_performance(week_commits, consistency, daily_avg)
    /\ UNCHANGED <<commits, streaks, rewards, kept>>

\* DashboardAnalytics.get_goal_progress(daily_goal, weekly_goal, monthly_goal,
\* target_date)
GetGoalProgress(goals, target_date, today) ==
    LET t == Resolve(target_date, today)
    IN  /\ call = Idle
        /\ call' = [op |-> "get_goal_progress", goals |-> goals, target_date |-> t]
        /\ ret' = get_goal_progress(commits, goals[1], goals[2], goals[3], t)
        /\ UNCHANGED <<commits, streaks, rewards, kept>>

\* DashboardAnalytics.generate_heatmap_data(days, target_date)
GenerateHeatmapData(days, target_date, today) ==
    LET t == Resolve(target_date, today)
    IN  /\ call = Idle
        /\ call' = [op |-> "generate_heatmap_data", days |-> days, target_date |-> t]
        /\ ret' = generate_heatmap_data(commits, days, t)
        /\ UNCHANGED <<commits, streaks, rewards, kept>>

\* Database.get_total_commits_by_date(target_date)
GetTotalCommitsByDate(target_date, today) ==
    LET t == Resolve(target_date, today)
    IN  /\ call = Idle
        /\ call' = [op |-> "get_total_commits_by_date", target_date |-> t]
        /\ ret' = get_total_commits_by_date(commits, t)
        /\ UNCHANGED <<commits, streaks, rewards, kept>>

\* Database.get_weekly_commits(start_date, end_date)
GetWeeklyCommits(start_date, end_date) ==
    /\ call = Idle
    /\ call' = [op |-> "get_weekly_commits", start_date |-> start_date,
                end_date |-> end_date]
    /\ ret' = get_weekly_commits(commits, start_date, end_date)
    /\ UNCHANGED <<commits, streaks, rewards, kept>>

\* Database.save_streak(start_date, end_date, length, streak_type), run in
\* second now of the clock; end_date None is NoDate
save_streak(start_date, end_date, length, streak_type, now) ==
    /\ call = Idle
    /\ now >= LastStamp
    /\ streaks' = Append(streaks, [start_date |-> start_date, end_date |-> end_date,
                                   length |-> length, type |-> streak_type,
                                   is_active |-> end_date = NoDate,
                                   created_at |-> now])
    /\ call' = [op |-> "save_streak"]
    /\ ret' = None
    /\ kept' = Nothing
    /\ UNCHANGED <<commits, rewards>>

\* RewardsEngine._save_achievement(achievement), run in second now of the
\* clock
_save_achievement(achievement, now) ==
    /\ call = Idle
    /\ now >= LastStamp
    /\ rewards' = Append(rewards, [type |-> achievement.type,
                                   message |-> achievement.message,
                                   date |-> achievement.date,
                                   triggered_by |-> achievement.triggered_by,
                                   created_at |-> now])
    /\ call' = [op |-> "_save_achievement"]
    /\ ret' = None
    /\ kept' = Nothing
    /\ UNCHANGED <<commits, streaks>>

\* RewardsEngine._check_consistency_achievements(date)
CheckConsistencyAchievements(date) ==
    /\ call = Idle
    /\ call' = [op |-> "_check_consistency_achievements", date |-> date]
    /\ ret' = _check_consistency_achievements(commits, date)
    /\ UNCHANGED <<commits, streaks, rewards, kept>>
\* RewardsEngine.get_recent_achievements(days), run when the clock shows
\* today
GetRecentAchievements(days, today) ==
    /\ call = Idle
    /\ call' = [op |-> "get_recent_achievements", days |-> days, today |-> today]
    /\ \E order \in OrderByCreatedAtDesc(rewards,
                        RecentRows(rewards, isoformat(today - days), isoformat(today))) :
           ret' = get_recent_achievements(rewards, order)
    /\ UNCHANGED <<commits, streaks, rewards, kept>>

\* Database.get_active_streak()
GetActiveStreak ==
    /\ call = Idle
    /\ call' = [op |-> "get_active_streak"]
    /\ \E result \in FetchActive(streaks) : ret' = get_active_streak(streaks, result)
    /\ UNCHANGED <<commits, streaks, rewards, kept>>
\* the operations of DashboardAnalytics
AnalyticsOps ==
    { "get_streak_data", "calculate_momentum", "get_achievements", "get_hall_of_fame",
      "get_goal_progress", "generate_heatmap_data", "get_historical_data" }

\* the dashboard command assigns the result of an analytics call to a local
\* variable and goes on to the next call
Keep ==
    /\ call.op \in AnalyticsOps
    /\ kept' = [call |-> call, ret |-> ret, commits |-> commits, streaks |-> streaks,
                rewards |-> rewards]
    /\ call' = Idle
    /\ ret' = None
    /\ UNCHANGED <<commits, streaks, rewards>>

\* LocalGitTracker.backfill_history(days, dry_run=dry_run, force=force), run
\* when the clock shows today and git reports scan
BackfillHistory(days, repos, scan, dry_run, force, today) ==
    LET run == backfill_history(commits, days, repos, scan, dry_run, force, today)
    IN  /\ call = Idle
        /\ commits' = run.table
        /\ call' = [op |-> "backfill_history", days |-> days, repos |-> repos,
                    scan |-> scan, dry_run |-> dry_run, force |-> force, today |-> today]
        /\ ret' = run.result
        /\ kept' = Nothing
        /\ UNCHANGED <<streaks, rewards>>

\* LocalGitTracker.track_date(target_date) when find_git_repositories
\* returns repos and git reports scan
TrackDate(target_date, repos, scan) ==
    LET run == track_date(commits, target_date, repos, scan)
    IN  /\ call = Idle
        /\ commits' = run.table
        /\ call' = [op |-> "track_date", target_date |-> target_date, repos |-> repos,
                    scan |-> scan]
        /\ ret' = run.result
        /\ kept' = Nothing
        /\ UNCHANGED <<streaks, rewards>>
\* DashboardAnalytics._calculate_trend(values)
CalculateTrend(values) ==
    /\ call = Idle
    /\ call' = [op |-> "_calculate_trend", values |-> values]
    /\ ret' = _calculate_trend(values)
    /\ UNCHANGED <<commits, streaks, rewards, kept>>

----------------------------------------------------------------------------
(* Inputs.                                                                 *)

\* the commit dictionaries save_commits is given
CommitDicts(days, counts, lines) ==
    [repo : Repos, date : {isoformat(o) : o \in days}, count : counts,
     lines_added : lines, lines_deleted : lines]

\* a call's target_date and the clock's date.today(): a date given, or None
\* at each date of the clock
DateArgs(dates) == { <<t, 0>> : t \in dates } \cup { <<NoDate, o>> : o \in 0..MaxDay }

\* the save keeps the table within a row bound
Fits(batch, cap) == Cardinality(SaveAll(commits, batch)) <= cap

----------------------------------------------------------------------------
(* Streaks: rows of days 0..MaxStreakDay with count 0 or 1, reference      *)
(* dates one day further on either side.                                   *)

StreakDicts == CommitDicts(0..MaxStreakDay, 0..1, {Missing})
StreakRefDates == {isoformat(o) : o \in (0 - 1)..(MaxStreakDay + 1)}

NextStreak ==
    \/ call = Idle /\ \E c \in StreakDicts : Fits(<<c>>, MaxStreakRows) /\ save_commits(<<c>>)
    \/ call = Idle /\ \E a \in DateArgs(StreakRefDates) : CalculateStreak(a[1], a[2])
    \/ call = Idle /\ \E a \in DateArgs(StreakRefDates) : GetStreakData(a[1], a[2])
    \/ Return

SpecStreak == Init /\ [][NextStreak]_vars

----------------------------------------------------------------------------
(* save_commits by itself: two repos, two dates, lines given or left out,  *)
(* and lists that name one (repo, date) twice.                             *)

SaveDicts == CommitDicts(0..1, 0..MaxCount, {Missing, 1})
DupBatches ==
    LET d == { c \in SaveDicts : c.repo = "r1" /\ c.date = isoformat(0) }
    IN  { <<a, b>> : a \in d, b \in d }

NextSave ==
    \/ call = Idle /\ \E c \in SaveDicts : Fits(<<c>>, MaxSaveRows) /\ save_commits(<<c>>)
    \/ call = Idle /\ \E b \in DupBatches : Fits(b, MaxSaveRows) /\ save_commits(b)
    \/ Return

SpecSave == Init /\ [][NextSave]_vars

----------------------------------------------------------------------------
(* Momentum: rows of days 0..MaxDay; the reference date moves over them    *)
(* and past them, to a week and a half and to two weeks on, so that each   *)
(* row is seen inside, between and outside the two windows.                *)

MomentumDicts == CommitDicts(0..MaxDay, 0..MaxCount, {Missing})
MomentumRefDates ==
    {isoformat(o) : o \in 0..(MaxDay + 8) \cup {MaxDay + 11, MaxDay + 14}}

NextMomentum ==
    \/ call = Idle /\ \E c \in MomentumDicts : Fits(<<c>>, MaxRows) /\ save_commits(<<c>>)
    \/ call = Idle /\ \E a \in DateArgs(MomentumRefDates), days \in {DefaultDays, 3} :
           CalculateMomentum(a[1], days, a[2])
    \/ Return

SpecMomentum == Init /\ [][NextMomentum]_vars

----------------------------------------------------------------------------
(* Hall of fame: rows of days 0..MaxHallDay, more than a week apart at the *)
(* ends.                                                                   *)

MaxHallDay == 8
MaxHallRows == 2
HallDicts == CommitDicts(0..MaxHallDay, 0..MaxCount, {Missing, 1})
HallRefDates == {isoformat(o) : o \in 0..MaxHallDay}

NextHall ==
    \/ call = Idle /\ \E c \in HallDicts : Fits(<<c>>, MaxHallRows) /\ save_commits(<<c>>)
    \/ call = Idle /\ \E a \in DateArgs(HallRefDates) : GetHallOfFame(a[1], a[2])
    \/ Return

SpecHall == Init /\ [][NextHall]_vars

----------------------------------------------------------------------------
(* The chase of the record: rows of days 0 and 1 with up to MaxChaseCount  *)
(* commits, so that a day falls short of the best day.                     *)

MaxChaseCount == 2
ChaseDicts == CommitDicts(0..1, 0..MaxChaseCount, {Missing})
ChaseRefDates == {isoformat(o) : o \in 0..2}

NextChase ==
    \/ call = Idle /\ \E c \in ChaseDicts : Fits(<<c>>, MaxRows) /\ save_commits(<<c>>)
    \/ call = Idle /\ \E a \in DateArgs(ChaseRefDates) : GetHallOfFame(a[1], a[2])
    \/ Return

SpecChase == Init /\ [][NextChase]_vars

----------------------------------------------------------------------------
(* Historical charts: rows of days 0..MaxDay, the clock at one of these    *)
(* days or the day after.                                                  *)

MaxPeriods == 4
ChartTypes == {"daily", "weekly", "monthly", "yearly"}
HistoryDicts == CommitDicts(0..MaxDay, 0..MaxCount, {Missing})

NextHistory ==
    \/ call = Idle /\ \E c \in HistoryDicts : Fits(<<c>>, MaxHistoryRows) /\ save_commits(<<c>>)
    \/ call = Idle /\ \E ct \in ChartTypes, n \in {Missing} \cup 0..MaxPeriods,
                         today \in 0..(MaxDay + 1) :
           GetHistoricalData(ct, n, today)
    \/ Return

SpecHistory == Init /\ [][NextHistory]_vars

----------------------------------------------------------------------------
(* The chart type: the three types of the program and values that are none *)
(* of them, with and without a number of periods.                          *)

OtherChartTypes == {"yearly", "auto", "Daily", ""}

NextChartType ==
    \/ call = Idle /\ \E c \in HistoryDicts : Fits(<<c>>, MaxHistoryRows) /\ save_commits(<<c>>)
    \/ call = Idle /\ \E ct \in ChartTypes \cup OtherChartTypes, n \in {Missing, 0, 2},
                         today \in {0, MaxDay} :
           GetHistoricalData(ct, n, today)
    \/ Return

SpecChartType == Init /\ [][NextChartType]_vars

----------------------------------------------------------------------------
(* The weekly chart: rows of days 0..MaxDay, the clock up to eight days    *)
(* past them, so that the rows fall into different weeks.                  *)

NextWeekly ==
    \/ call = Idle /\ \E c \in HistoryDicts : Fits(<<c>>, MaxHistoryRows) /\ save_commits(<<c>>)
    \/ call = Idle /\ \E n \in {Missing} \cup 1..MaxPeriods, today \in 0..(MaxDay + 8) :
           GetHistoricalData("weekly", n, today)
    \/ Return

SpecWeekly == Init /\ [][NextWeekly]_vars

----------------------------------------------------------------------------
(* The monthly chart: rows at the ends of December 2023 and January 2024,  *)
(* the clock on first and last days of months around the turn of the year  *)
(* and around the leap day.                                                *)

MonthlyDicts == CommitDicts({0 - 31, 0 - 1, 0, 30}, 0..MaxCount, {Missing})
MonthlyTodays == {0 - 1, 0, 29, 30, 59, 60, 89, 90}

NextMonthly ==
    \/ call = Idle /\ \E c \in MonthlyDicts : Fits(<<c>>, MaxHistoryRows) /\ save_commits(<<c>>)
    \/ call = Idle /\ \E n \in {Missing} \cup 0..MaxPeriods, today \in MonthlyTodays :
           GetHistoricalData("monthly", n, today)
    \/ Return

SpecMonthly == Init /\ [][NextMonthly]_vars

----------------------------------------------------------------------------
(* _categorize_performance on its own inputs.                              *)

MaxWeekCommits == 51
MaxAvgSevenths == 50

NextCategorize ==
    \/ call = Idle /\ \E w \in 0..MaxWeekCommits, c \in 0..7, n \in 0..MaxAvgSevenths :
           CategorizePerformance(w, c, Frac(n, 7))
    \/ Return

SpecCategorize == Init /\ [][NextCategorize]_vars

----------------------------------------------------------------------------
(* Achievements: one repo, rows of days 0..MaxAchievementDay with 0, 1 or  *)
(* 5 commits and 0 or 1000 lines, so that streak, volume and growth        *)
(* achievements unlock.                                                    *)

MaxAchievementDay == 3
MaxAchievementRows == 4
AchievementDicts ==
    [repo : {"r1"}, date : {isoformat(o) : o \in 0..MaxAchievementDay}, count : {0, 1, 5},
     lines_added : {Missing, 1000}, lines_deleted : {Missing}]
AchievementRefDates == {isoformat(o) : o \in 0..MaxAchievementDay}

NextAchievements ==
    \/ call = Idle /\ \E c \in AchievementDicts :
           Fits(<<c>>, MaxAchievementRows) /\ save_commits(<<c>>)
    \/ call = Idle /\ \E a \in DateArgs(AchievementRefDates) : GetAchievements(a[1], a[2])
    \/ Return

SpecAchievements == Init /\ [][NextAchievements]_vars

----------------------------------------------------------------------------
(* All operations of the analytics side by side, with the writers of the   *)
(* three tables: one repo, rows of days 0..MaxAnalyticsDay with 1 commit,  *)
(* reference dates on these days.                                          *)

MaxAnalyticsDay == 1
MaxStreakRecords == 1
MaxRewards == 1
AnalyticsDicts ==
    [repo : {"r1"}, date : {isoformat(o) : o \in 0..MaxAnalyticsDay}, count : {1},
     lines_added : {Missing}, lines_deleted : {Missing}]
\* a date given for each day, and None on the last day
AnalyticsArgs ==
    { <<isoformat(o), 0>> : o \in 0..MaxAnalyticsDay } \cup { <<NoDate, MaxAnalyticsDay>> }
DefaultGoals == <<5, 35, 100>>

NextAnalytics ==
    \/ call = Idle /\ \E c \in AnalyticsDicts : save_commits(<<c>>)
    \/ call = Idle /\ Len(streaks) < MaxStreakRecords
         /\ save_streak(isoformat(0), NoDate, 1, "daily", 0)
    \/ call = Idle /\ Len(rewards) < MaxRewards
         /\ _save_achievement([type |-> "streak", message |-> "3 Day Streak!",
                               date |-> isoformat(0), triggered_by |-> "streak_3"], 0)
    \/ call = Idle /\ \E a \in AnalyticsArgs : CalculateStreak(a[1], a[2])
    \/ call = Idle /\ \E a \in AnalyticsArgs : GetTotalCommitsByDate(a[1], a[2])
    \/ call = Idle /\ GetWeeklyCommits(isoformat(0), isoformat(MaxAnalyticsDay))
    \/ call = Idle /\ \E a \in AnalyticsArgs : GetStreakData(a[1], a[2])
    \/ call = Idle /\ \E a \in AnalyticsArgs : CalculateMomentum(a[1], DefaultDays, a[2])
    \/ call = Idle /\ \E a \in AnalyticsArgs : GetAchievements(a[1], a[2])
    \/ call = Idle /\ \E a \in AnalyticsArgs : GetHallOfFame(a[1], a[2])
    \/ call = Idle /\ \E a \in AnalyticsArgs, goals \in {DefaultGoals, <<0, 0, 0>>} :
           GetGoalProgress(goals, a[1], a[2])
    \/ call = Idle /\ \E a \in AnalyticsArgs : GenerateHeatmapData(DefaultHeatmapDays, a[1], a[2])
    \/ call = Idle /\ \E ct \in ChartTypes : GetHistoricalData(ct, Missing, MaxAnalyticsDay)
    \/ Keep
    \/ Return

SpecAnalytics == Init /\ [][NextAnalytics]_vars

----------------------------------------------------------------------------
(* Backfill: rows saved before for days 0..MaxBackfillDay, then runs over  *)
(* the last day or over all the days with the clock on day MaxBackfillDay, *)
(* in each mode, git reporting 0 or 2 commits per repository and day.      *)

MaxBackfillDay == 1
BackfillDicts == CommitDicts(0..MaxBackfillDay, {1}, {Missing})
Scans == [Repos \X (0..MaxBackfillDay) -> {0, 2}]
RepoLists == { <<>>, <<"r1">>, <<"r1", "r2">> }

NextBackfill ==
    \/ call = Idle /\ \E c \in BackfillDicts : save_commits(<<c>>)
    \/ call = Idle /\ \E days \in {1, MaxBackfillDay + 1}, repos \in RepoLists,
                         scan \in Scans, dry_run \in BOOLEAN, force \in BOOLEAN :
           BackfillHistory(days, repos, scan, dry_run, force, MaxBackfillDay)
    \/ Return

SpecBackfill == Init /\ [][NextBackfill]_vars

----------------------------------------------------------------------------
(* Weekly consistency: one repo, rows of days 0..MaxConsistencyDay with 10 *)
(* or 25 commits, and the check on each day from the Monday of ordinal 0   *)
(* to the Sunday after the last row.                                       *)

MaxConsistencyDay == 6
ConsistencyDicts ==
    [repo : {"r1"}, date : {isoformat(o) : o \in 0..MaxConsistencyDay}, count : {10, 25},
     lines_added : {Missing}, lines_deleted : {Missing}]
ConsistencyRefDates == {isoformat(o) : o \in 0..(MaxConsistencyDay + 7)}

NextConsistency ==
    \/ call = Idle /\ \E c \in ConsistencyDicts : save_commits(<<c>>)
    \/ call = Idle /\ \E d \in ConsistencyRefDates : CheckConsistencyAchievements(d)
    \/ Return

SpecConsistency == Init /\ [][NextConsistency]_vars
----------------------------------------------------------------------------
(* Saved achievements: up to MaxRewardRows rows dated on days              *)
(* 0..MaxRewardDay, saved in the same second as the row before or in the   *)
(* next, and the query over the last 0..MaxRewardDay days on each day.     *)

MaxRewardDay == 3
MaxRewardRows == 3
MaxStamp == 2
SavedAchievements ==
    [type : {"test1"}, message : {"Test 1"},
     date : {isoformat(o) : o \in 0..MaxRewardDay}, triggered_by : {"test1"}]

NextRewards ==
    \/ call = Idle /\ Len(rewards) < MaxRewardRows
         /\ \E a \in SavedAchievements, now \in 0..MaxStamp : _save_achievement(a, now)
    \/ call = Idle /\ \E days \in 0..MaxRewardDay, today \in 0..MaxRewardDay :
           GetRecentAchievements(days, today)
    \/ Return

SpecRewards == Init /\ [][NextRewards]_vars

----------------------------------------------------------------------------
(* Saved streaks: up to MaxSavedStreaks rows, active or ended, of lengths  *)
(* that tell them apart, saved in the same second as the row before or     *)
(* later.                                                                  *)

MaxSavedStreaks == 3
MaxStreakLength == 3

NextStreakRecords ==
    \/ call = Idle /\ Len(streaks) < MaxSavedStreaks
         /\ \E end_date \in {NoDate, isoformat(1)}, length \in 1..MaxStreakLength,
               now \in 0..MaxStamp :
                save_streak(isoformat(0), end_date, length, "daily", now)
    \/ call = Idle /\ GetActiveStreak
    \/ Return

SpecStreakRecords == Init /\ [][NextStreakRecords]_vars
----------------------------------------------------------------------------
(* Tracking a date: three repository paths, two of them with the same base *)
(* name, 0..MaxTrackCount commits in each; the store holds rows of day 0   *)
(* and what earlier runs left, and days 0..MaxTrackDay are tracked.        *)

MaxTrackDay == 1
MaxTrackCount == 2
RepoPaths == { <<"/a", "r1">>, <<"/b", "r1">>, <<"/a", "r2">> }
PathLists ==
    {<<>>} \cup { <<p>> : p \in RepoPaths }
           \cup { <<pq[1], pq[2]>> : pq \in { x \in RepoPaths \X RepoPaths : x[1] # x[2] } }
TrackScans == [RepoPaths -> 0..MaxTrackCount]
TrackDicts == CommitDicts({0}, {1}, {Missing})

NextTrack ==
    \/ call = Idle /\ \E c \in TrackDicts : save_commits(<<c>>)
    \/ call = Idle /\ \E o \in 0..MaxTrackDay, repos \in PathLists, scan \in TrackScans :
           TrackDate(isoformat(o), repos, scan)
    \/ Return

SpecTrack == Init /\ [][NextTrack]_vars
----------------------------------------------------------------------------
(* Performance levels of real weeks: one repo, rows of days 0..MaxLevelDay *)
(* with 1, 4, 5 or 10 commits, which add up to weeks on either side of     *)
(* each threshold; momentum is computed on the last day and the day after. *)

MaxLevelDay == 5
LevelCounts == {1, 4, 5, 10}
LevelDicts ==
    [repo : {"r1"}, date : {isoformat(o) : o \in 0..MaxLevelDay}, count : LevelCounts,
     lines_added : {Missing}, lines_deleted : {Missing}]

NextLevel ==
    \/ call = Idle /\ \E c \in LevelDicts : save_commits(<<c>>)
    \/ call = Idle /\ \E o \in {MaxLevelDay, MaxLevelDay + 1} :
           CalculateMomentum(isoformat(o), DefaultDays, 0)
    \/ Return

SpecLevel == Init /\ [][NextLevel]_vars
----------------------------------------------------------------------------
(* Records against current values: one repo with a row on each of up to    *)
(* MaxRecordDay + 1 days, more dates than the 7 rows of the window         *)
(* function's frame; a row has 2 commits and no lines or 1 commit and 6    *)
(* lines, so the best day by commits is not the best day by lines.         *)

MaxRecordDay == 7
RecordDicts ==
    [repo : {"r1"}, date : {isoformat(o) : o \in 0..MaxRecordDay}, count : {2},
     lines_added : {Missing}, lines_deleted : {Missing}]
      \cup [repo : {"r1"}, date : {isoformat(o) : o \in 0..MaxRecordDay}, count : {1},
            lines_added : {5}, lines_deleted : {1}]

NextRecords ==
    \/ call = Idle /\ \E c \in RecordDicts : save_commits(<<c>>)
    \/ call = Idle /\ \E o \in {MaxRecordDay - 1, MaxRecordDay} :
           GetHallOfFame(isoformat(o), 0)
    \/ Return

SpecRecords == Init /\ [][NextRecords]_vars
----------------------------------------------------------------------------
(* Families of achievements: runs of 1 to 30 days of repo r1 that end on   *)
(* one of the last two days, saved as one batch each (the last day of a    *)
(* run has 2 commits and a line, so the best day is decided), and a row of *)
(* repo r2 on the last day with commits and lines around the thresholds of *)
(* the volume families.                                                    *)

MaxNestDay == 30
RunLengths == {1, 2, 3, 6, 7, 20, 21, 29, 30}
VolumeCounts == {3, 5, 8, 12, 15}
VolumeLines == {Missing, 999, 1000, 5000, 10000, 50000}

\* the rows of a run of k days that ends on day e
RunBatch(e, k) ==
    [i \in 1..k |->
        [repo |-> "r1", date |-> isoformat(e - k + i),
         count |-> IF i = k THEN 2 ELSE 1,
         lines_added |-> IF i = k THEN 1 ELSE Missing,
         lines_deleted |-> Missing]]

VolumeDicts ==
    [repo : {"r2"}, date : {isoformat(MaxNestDay)}, count : VolumeCounts,
     lines_added : VolumeLines, lines_deleted : {Missing}]

NextNested ==
    \/ call = Idle /\ \E e \in {MaxNestDay - 1, MaxNestDay}, k \in RunLengths :
           save_commits(RunBatch(e, k))
    \/ call = Idle /\ \E c \in VolumeDicts : save_commits(<<c>>)
    \/ call = Idle /\ \E o \in {MaxNestDay - 1, MaxNestDay} : GetAchievements(isoformat(o), 0)
    \/ Return

SpecNested == Init /\ [][NextNested]_vars
----------------------------------------------------------------------------
(* _calculate_trend on its own inputs: lists of up to MaxTrendLen integers *)
(* of either sign; 10 and 11 in two halves are a change of exactly 10.     *)

MaxTrendLen == 3
MaxTrendValue == 11
TrendValues == (0 - MaxTrendValue)..MaxTrendValue
TrendLists == UNION { [1..n -> TrendValues] : n \in 0..MaxTrendLen }

NextTrend ==
    \/ call = Idle /\ \E values \in TrendLists : CalculateTrend(values)
    \/ Return

SpecTrend == Init /\ [][NextTrend]_vars

----------------------------------------------------------------------------
(* Reference notions the claims are stated with, by calendar day.          *)

\* total commit count of the day of ordinal o, across repos
DayTotal(table, o) == SumCount({ r \in table : strptime(r.date) = o })

\* whether the day of ordinal o has a record with count > 0
DayHasCommit(table, o) == \E r \in table : strptime(r.date) = o /\ r.count > 0

\* number of consecutive days D, D-1, ... with total > 0, up to the first day
\* with total 0
ConsecutiveActiveDays(table, D) ==
    CHOOSE k \in 0..Cardinality(table) :
        /\ \A j \in 0..(k - 1) : DayTotal(table, D - j) > 0
        /\ DayTotal(table, D - k) = 0

\* length of the longest run of consecutive days that each have a record
\* with count > 0
LongestRun(table) ==
    CHOOSE k \in 0..Cardinality(table) :
        /\ k > 0 => \E r \in table :
                       \A j \in 0..(k - 1) : DayHasCommit(table, strptime(r.date) + j)
        /\ \A r \in table :
               \E j \in 0..k : ~DayHasCommit(table, strptime(r.date) + j)

----------------------------------------------------------------------------
(* Claims.                                                                 *)

\* C1: calculate_streak(D) is the number of consecutive calendar days D, D-1,
\* ... whose total commit count is > 0, for every store, also one that holds
\* active dates later than D.
C1_StreakCountsBackFromD ==
    call.op = "calculate_streak" =>
        ret = ConsecutiveActiveDays(commits, strptime(call.target_date))

\* C2: get_streak_data(D).current_streak is 0 exactly when the total of D is
\* 0, and is_active_today is true exactly when current_streak >= 1.
C2_ZeroStreakIffNoCommits ==
    call.op = "get_streak_data" =>
        /\ (ret.current_streak = 0) <=>
               (get_total_commits_by_date(commits, call.target_date) = 0)
        /\ ret.is_active_today <=> (ret.current_streak >= 1)

\* C3: _get_longest_streak() is the length of the longest run of consecutive
\* calendar days that each have a record with count > 0: 0 without an active
\* date, and 1 with exactly one active date X, where calculate_streak(X) is 1
\* as well.
C3_LongestStreakIsLongestRun ==
    call.op = "get_streak_data" =>
        /\ ret.longest_streak = LongestRun(commits)
        /\ (\A r \in commits : r.count = 0) => ret.longest_streak = 0
        /\ { r.date : r \in { x \in commits : x.count > 0 } } = {call.target_date} =>
               ret.longest_streak = 1 /\ ret.current_streak = 1

\* two runs of two days with a gap between them
C3_Witness ==
    /\ call.op = "get_streak_data"
    /\ Cardinality({ r.date : r \in { x \in commits : x.count > 0 } }) = 4
    /\ ret.longest_streak = 2

\* the (repo, date) pair of a row or of a commit dictionary
PairOf(r) == <<r.repo, r.date>>

\* C4: the table holds at most one record per (repo, date); after a save the
\* record of each saved pair carries exactly the values of the most recent
\* save of that pair (replaced, not summed), and the records of the other
\* pairs are as before.
C4_SaveReplacesLastWriteWins ==
    [][call'.op = "save_commits" =>
        LET batch == call'.commits
            saved == { PairOf(batch[i]) : i \in 1..Len(batch) }
        IN  /\ \A r1 \in commits', r2 \in commits' : PairOf(r1) = PairOf(r2) => r1 = r2
            /\ \A i \in 1..Len(batch) :
                   (\A j \in (i + 1)..Len(batch) : PairOf(batch[j]) # PairOf(batch[i])) =>
                       \E r \in commits' :
                           /\ PairOf(r) = PairOf(batch[i])
                           /\ r.count = batch[i].count
                           /\ r.lines_added =
                                  (IF batch[i].lines_added = Missing THEN 0
                                   ELSE batch[i].lines_added)
                           /\ r.lines_deleted =
                                  (IF batch[i].lines_deleted = Missing THEN 0
                                   ELSE batch[i].lines_deleted)
            /\ { r \in commits' : PairOf(r) \notin saved } =
                   { r \in commits : PairOf(r) \notin saved }
    ]_vars

\* a list that saved one pair twice with different counts, next to the record
\* of another pair
C4_Witness ==
    /\ call.op = "save_commits"
    /\ Len(call.commits) = 2
    /\ call.commits[1].count # call.commits[2].count
    /\ call.commits[1].lines_added # call.commits[2].lines_added
    /\ Cardinality(commits) = 2

\* total commit count of the days of ordinals a..b
RangeTotal(table, a, b) ==
    SumCount({ r \in table : a <= strptime(r.date) /\ strptime(r.date) <= b })

\* the greatest, over the dates d that have a record, of the total of the 7
\* calendar days d-6..d
BestCalendarWeek(table) ==
    LET totals == { RangeTotal(table, strptime(r.date) - 6, strptime(r.date)) : r \in table }
    IN  CHOOSE m \in totals : \A x \in totals : x <= m

\* C5: best_week_commits.value is the greatest 7-calendar-day total d-6..d
\* over the dates d that have a record, also for sparse dates, and the date
\* reported attains it.
C5_BestWeekIsSevenCalendarDays ==
    (call.op = "get_hall_of_fame" /\ commits # {}) =>
        /\ ret.best_week_commits.value = BestCalendarWeek(commits)
        /\ RangeTotal(commits, strptime(ret.best_week_commits.date) - 6,
                      strptime(ret.best_week_commits.date)) = BestCalendarWeek(commits)

\* C6: calculate_momentum(D) sums this_week_commits over exactly the days
\* D-6..D and last_week_commits over exactly the days D-13..D-7.
C6_MomentumWindows ==
    call.op = "calculate_momentum" =>
        LET D == strptime(call.target_date)
        IN  /\ ret.this_week_commits = RangeTotal(commits, D - 6, D)
            /\ ret.last_week_commits = RangeTotal(commits, D - 13, D - 7)
            /\ ret.this_week_commits + ret.last_week_commits
                   = RangeTotal(commits, D - 13, D)

\* commits in both windows
C6_Witness ==
    /\ call.op = "calculate_momentum"
    /\ ret.this_week_commits > 0
    /\ ret.last_week_commits > 0
    /\ \E r \in commits : r.count > 0 /\ strptime(r.date) = strptime(call.target_date) - 6
    /\ \E r \in commits : r.count > 0 /\ strptime(r.date) = strptime(call.target_date) - 7

\* C7: week_over_week_change is (thisWeek - lastWeek) / lastWeek * 100 when
\* lastWeek > 0; with lastWeek = 0 it is 100 when thisWeek > 0 and 0 otherwise;
\* nothing is divided by zero.  30 vs 20 gives 50, 10 vs 0 gives 100, 0 vs 0
\* gives 0.
C7_WeekOverWeekChange ==
    /\ call.op = "calculate_momentum" =>
        LET this == ret.this_week_commits
            last == ret.last_week_commits
            w == ret.week_over_week_change
        IN  /\ w.den > 0
            /\ last > 0 => w.num * last = (this - last) * 100 * w.den
            /\ (last = 0 /\ this > 0) => w.num = 100 * w.den
            /\ (last = 0 /\ this = 0) => w.num = 0
    /\ FracEq(WeekChange(30, 20), Frac(50, 1))
    /\ FracEq(WeekChange(10, 0), Frac(100, 1))
    /\ FracEq(WeekChange(0, 0), Frac(0, 1))

\* one commit this week after two last week: a change of -50
C7_Witness ==
    /\ call.op = "calculate_momentum"
    /\ ret.this_week_commits = 1
    /\ ret.last_week_commits = 2
    /\ FracEq(ret.week_over_week_change, Frac(0 - 50, 1))

\* C8: _categorize_performance is the cascade Legendary (50, 6, 7), Crushing
\* (25, 5, 4), Building (10, 3, 2), Starting, the first level whose three
\* thresholds are all met; (50, 6, 7) is Legendary and (50, 6, 3) is Building.
C8_PerformanceCascade ==
    call.op = "_categorize_performance" =>
        LET w == call.week_commits
            c == call.consistency
            a == call.daily_avg
            Legendary == w >= 50 /\ c >= 6 /\ a.num >= 7 * a.den
            Crushing == w >= 25 /\ c >= 5 /\ a.num >= 4 * a.den
            Building == w >= 10 /\ c >= 3 /\ a.num >= 2 * a.den
        IN  /\ ret = LEGENDARY <=> Legendary
            /\ ret = CRUSHING <=> (~Legendary /\ Crushing)
            /\ ret = BUILDING <=> (~Legendary /\ ~Crushing /\ Building)
            /\ ret = STARTING <=> (~Legendary /\ ~Crushing /\ ~Building)
            /\ (w = 50 /\ c = 6 /\ a = Frac(49, 7)) => ret = LEGENDARY
            /\ (w = 50 /\ c = 6 /\ a = Frac(21, 7)) => ret = BUILDING

\* 50 commits on 6 days with a daily average of 3
C8_Witness ==
    /\ call.op = "_categorize_performance"
    /\ call.week_commits = 50
    /\ call.consistency = 6
    /\ call.daily_avg = Frac(21, 7)
    /\ ret = BUILDING

\* C9: with the default 7 days, daily_trend has 7 entries, entry i (0..6) the
\* total of day D-6+i; consistency_score counts the nonzero entries;
\* average_daily is sum(daily_trend)/7; sum(daily_trend) is this_week_commits.
C9_DailyTrend ==
    (call.op = "calculate_momentum" /\ call.days = 7) =>
        LET D == strptime(call.target_date)
            trend == ret.daily_trend
        IN  /\ Len(trend) = 7
            /\ \A i \in 0..6 : trend[i + 1] = DayTotal(commits, D - 6 + i)
            /\ ret.consistency_score = Cardinality({ k \in 1..7 : trend[k] # 0 })
            /\ ret.average_daily.num * 7 = SumSeq(trend) * ret.average_daily.den
            /\ ret.average_daily.den > 0
            /\ SumSeq(trend) = ret.this_week_commits

\* commits on D and on D-2, none on D-1 and D-6
C9_Witness ==
    /\ call.op = "calculate_momentum"
    /\ call.days = 7
    /\ ret.daily_trend[7] > 0
    /\ ret.daily_trend[6] = 0
    /\ ret.daily_trend[5] > 0
    /\ ret.consistency_score = 2

\* C10: get_historical_data('daily', N), N >= 1, returns N periods, one per
\* day from today-(N-1) to today in ascending order, and their commits sum to
\* get_weekly_commits(today-(N-1), today).
C10_DailyHistoryRoundTrip ==
    (/\ call.op = "get_historical_data"
     /\ call.chart_type = "daily"
     /\ call.periods >= 1) =>
        LET N == call.periods
            first == call.today - (N - 1)
            range == get_weekly_commits(commits, isoformat(first), isoformat(call.today))
        IN  /\ Len(ret.periods) = N
            /\ \A k \in 1..N :
                   /\ ret.periods[k].start_date = isoformat(first + (k - 1))
                   /\ ret.periods[k].end_date = isoformat(first + (k - 1))
            /\ SumSeq([k \in 1..N |-> ret.periods[k].commits]) = range
            /\ ret.total_commits = range

\* several days with commits on the first of them, none on the last, and a
\* record with commits outside the span
C10_Witness ==
    /\ call.op = "get_historical_data"
    /\ call.chart_type = "daily"
    /\ call.periods >= 2
    /\ ret.periods[1].commits > 0
    /\ ret.periods[call.periods].commits = 0
    /\ ret.total_commits < SumCount(commits)

\* C11: get_historical_data('weekly', N), N >= 1, returns N periods, oldest
\* first, labelled W1..WN; each covers 7 days, the last ends today, each ends
\* the day before the next starts, each carries the total of its days, and
\* total_commits is the total of the 7*N days that end today.
C11_WeeklyPeriodsPartition ==
    (/\ call.op = "get_historical_data"
     /\ call.chart_type = "weekly"
     /\ call.periods >= 1) =>
        LET N == call.periods
            P == ret.periods
        IN  /\ Len(P) = N
            /\ \A k \in 1..N :
                   /\ P[k].label = <<"W", k>>
                   /\ strptime(P[k].end_date) - strptime(P[k].start_date) = 6
                   /\ P[k].commits = RangeTotal(commits, strptime(P[k].start_date),
                                                strptime(P[k].end_date))
            /\ P[N].end_date = isoformat(call.today)
            /\ \A k \in 1..(N - 1) :
                   strptime(P[k].end_date) + 1 = strptime(P[k + 1].start_date)
            /\ ret.total_commits
                   = RangeTotal(commits, call.today - (7 * N - 1), call.today)

\* commits in the last week and in the week before it
C11_Witness ==
    /\ call.op = "get_historical_data"
    /\ call.chart_type = "weekly"
    /\ call.periods >= 2
    /\ ret.periods[call.periods].commits > 0
    /\ ret.periods[call.periods - 1].commits > 0

\* C12: get_historical_data('monthly', N), N >= 1, returns N periods, oldest
\* first: the last runs from the first day of today's month to today, each
\* earlier one from the first to the last day of one calendar month, and
\* each ends the day before the next starts.
C12_MonthlyPeriodsAreCalendarMonths ==
    (/\ call.op = "get_historical_data"
     /\ call.chart_type = "monthly"
     /\ call.periods >= 1) =>
        LET N == call.periods
            P == ret.periods
            t == isoformat(call.today)
        IN  /\ Len(P) = N
            /\ P[N].start_date = <<t[1], t[2], 1>>
            /\ P[N].end_date = t
            /\ \A k \in 1..(N - 1) :
                   /\ P[k].start_date[3] = 1
                   /\ P[k].start_date[1] = P[k].end_date[1]
                   /\ P[k].start_date[2] = P[k].end_date[2]
                   /\ isoformat(strptime(P[k].end_date) + 1)[3] = 1
                   /\ strptime(P[k].end_date) + 1 = strptime(P[k + 1].start_date)

\* three months asked for on 2024-01-31: November and December 2023 in full,
\* with commits in December
C12_Witness ==
    /\ call.op = "get_historical_data"
    /\ call.chart_type = "monthly"
    /\ call.periods = 3
    /\ call.today = 30
    /\ ret.periods[1].end_date = <<2023, 11, 30>>
    /\ ret.periods[2].commits > 0

\* C13: _calculate_trend(values) is ('stable', 0) for fewer than 2 values;
\* else, with the means of values[:len//2] and values[len//2:]: a first mean
\* of 0 gives ('up', 100) for a second mean > 0 and ('stable', 0) otherwise;
\* else pct = (second - first)/first*100 gives 'up' iff pct > 10, 'down' iff
\* pct < -10, 'stable' otherwise, with the magnitude |pct|.
C13_TrendFromHalves ==
    call.op = "_calculate_trend" =>
        LET v == call.values
            n == Len(v)
            mid == n \div 2
            S1 == SumSeq(SubSeq(v, 1, mid))
            S2 == SumSeq(SubSeq(v, mid + 1, n))
            \* pct = A / B
            A == (S2 * mid - S1 * (n - mid)) * 100
            B == S1 * (n - mid)
            Abs(x) == IF x < 0 THEN 0 - x ELSE x
            Above == (B > 0 /\ A > 10 * B) \/ (B < 0 /\ A < 10 * B)
            Below == (B > 0 /\ A < (0 - 10) * B) \/ (B < 0 /\ A > (0 - 10) * B)
        IN  /\ ret[2].den > 0
            /\ ret[2].num >= 0
            /\ n < 2 => ret[1] = "stable" /\ ret[2].num = 0
            /\ (n >= 2 /\ S1 = 0 /\ S2 > 0) =>
                   ret[1] = "up" /\ ret[2].num = 100 * ret[2].den
            /\ (n >= 2 /\ S1 = 0 /\ S2 <= 0) => ret[1] = "stable" /\ ret[2].num = 0
            /\ (n >= 2 /\ S1 # 0) =>
                   /\ ret[1] = "up" <=> Above
                   /\ ret[1] = "down" <=> Below
                   /\ ret[1] = "stable" <=> (~Above /\ ~Below)
                   /\ ret[2].num * Abs(B) = Abs(A) * ret[2].den

\* means 10 and 5: down by 50
C13_Witness ==
    /\ call.op = "_calculate_trend"
    /\ call.values = <<10, 5>>
    /\ ret[1] = "down"
    /\ FracEq(ret[2], Frac(50, 1))

\* every value of a list negated
Negated(values) == [k \in 1..Len(values) |-> 0 - values[k]]

\* C14: negating every value of a list turns the direction 'up' into 'down'
\* and 'down' into 'up' and leaves 'stable' as it is; the same list gives the
\* same result again.
C14_TrendSymmetricUnderNegation ==
    (/\ call.op = "_calculate_trend"
     /\ \A k \in 1..Len(call.values) : call.values[k] >= 0) =>
        LET negated == _calculate_trend(Negated(call.values))
        IN  /\ ret[1] = "up" => negated[1] = "down"
            /\ ret[1] = "down" => negated[1] = "up"
            /\ ret[1] = "stable" => negated[1] = "stable"
            /\ _calculate_trend(call.values) = ret

\* the ids of the achievement catalogue, in order
CatalogueIds ==
    << "first_step", "fire_starter", "consistent_coder", "streak_master", "code_warrior",
       "commit_surge", "commit_storm", "commit_hurricane", "commit_legend",
       "line_crusher", "code_beast", "coding_machine", "line_god",
       "perfect_week", "momentum_builder" >>

\* the greatest total of one day, 0 for the empty table
BestDayTotal(table) ==
    LET totals == { DayTotal(table, strptime(r.date)) : r \in table } \cup {0}
    IN  CHOOSE m \in totals : \A x \in totals : x <= m

\* C15: get_achievements(D) returns the catalogue of 15 ids in its fixed
\* order; each entry is either unlocked (unlocked_date = D, no progress) or
\* locked (no unlocked_date, 0 <= progress < 1); fire_starter is unlocked
\* exactly when the streak of consecutive active days ending at D is >= 3 and
\* has progress streak/3 otherwise; commit_surge is unlocked exactly when the
\* best day has 5 commits or more.
C15_AchievementsFromCurrentValues ==
    call.op = "get_achievements" =>
        LET D == call.target_date
            streak == ConsecutiveActiveDays(commits, strptime(D))
            Unlocked(a) == a.unlocked_date = D /\ a.progress = <<>>
            Locked(a) ==
                /\ a.unlocked_date = NoDate
                /\ Len(a.progress) = 1
                /\ a.progress[1].den > 0
                /\ 0 <= a.progress[1].num
                /\ a.progress[1].num < a.progress[1].den
        IN  /\ Len(ret) = 15
            /\ \A k \in 1..15 :
                   /\ ret[k].id = CatalogueIds[k]
                   /\ Unlocked(ret[k]) \/ Locked(ret[k])
            /\ Unlocked(ret[2]) <=> streak >= 3
            /\ Locked(ret[2]) => ret[2].progress[1].num * 3 = streak * ret[2].progress[1].den
            /\ Unlocked(ret[6]) <=> BestDayTotal(commits) >= 5
            /\ Locked(ret[6]) =>
                   ret[6].progress[1].num * 5 = BestDayTotal(commits) * ret[6].progress[1].den

\* a personal record without the date it names: SQL leaves open which of
\* several days with the greatest total ORDER BY ... LIMIT 1 returns, and the
\* model leaves it open at every evaluation
RecordValue(record) == [record_type |-> record.record_type, value |-> record.value]

\* two results of one operation are the same
SameResult(op, a, b) ==
    IF op = "get_hall_of_fame"
    THEN /\ RecordValue(a.best_single_day_commits) = RecordValue(b.best_single_day_commits)
         /\ RecordValue(a.best_single_day_lines) = RecordValue(b.best_single_day_lines)
         /\ RecordValue(a.best_week_commits) = RecordValue(b.best_week_commits)
         /\ a.current_day_commits = b.current_day_commits
         /\ a.current_day_lines = b.current_day_lines
         /\ a.days_until_record = b.days_until_record
         /\ a.record_chase_progress = b.record_chase_progress
    ELSE a = b

\* C16: no operation of DashboardAnalytics changes table commits, streaks or
\* rewards; and an operation evaluated again with the same arguments on the
\* same tables, whatever other operations were evaluated in between, returns
\* what it returned before.
C16_AnalyticsReadsOnly ==
    /\ [][call'.op \in AnalyticsOps =>
              <<commits, streaks, rewards>>' = <<commits, streaks, rewards>>]_vars
    /\ [](( /\ call.op \in AnalyticsOps
            /\ kept.call = call
            /\ kept.commits = commits
            /\ kept.streaks = streaks
            /\ kept.rewards = rewards ) => SameResult(call.op, ret, kept.ret))

\* get_achievements evaluated for the second time, with rows in all three
\* tables and an achievement unlocked
C16_Witness ==
    /\ call.op = "get_achievements"
    /\ kept.call = call
    /\ commits # {}
    /\ streaks # <<>>
    /\ rewards # <<>>
    /\ ret[1].unlocked_date = call.target_date

\* C17: get_hall_of_fame(D).record_chase_progress is min(1, total of D / best
\* day total) when the best day total is > 0 and 0 when there is no record
\* (empty table or best total 0); it lies in [0, 1] and nothing is divided
\* by zero.
C17_RecordChaseProgress ==
    call.op = "get_hall_of_fame" =>
        LET p == ret.record_chase_progress
            best == BestDayTotal(commits)
            today == DayTotal(commits, strptime(call.target_date))
        IN  /\ p.den > 0
            /\ 0 <= p.num /\ p.num <= p.den
            /\ (best > 0 /\ today < best) => p.num * best = today * p.den
            /\ (best > 0 /\ today >= best) => p.num = p.den
            /\ best = 0 => p.num = 0

\* a day with one commit against a record of three
C17_Witness ==
    /\ call.op = "get_hall_of_fame"
    /\ ret.current_day_commits = 1
    /\ ret.best_single_day_commits.value = 3
    /\ FracEq(ret.record_chase_progress, Frac(1, 3))

\* C18: on an empty commits table every analytics operation returns its zero
\* result: calculate_streak, longest streak, get_total_commits_by_date and
\* get_weekly_commits 0; momentum with both weeks 0, change 0, a daily trend
\* of zeros and level Starting; each chart with total 0, peak 0 and trend
\* 'stable' 0; hall-of-fame records of value 0 and chase progress 0; every
\* achievement locked with progress 0; goals and heatmap at 0.
C18_EmptyStoreGivesZeroResults ==
    commits = {} =>
        /\ call.op \in {"calculate_streak", "get_total_commits_by_date",
                         "get_weekly_commits"} => ret = 0
        /\ call.op = "get_streak_data" =>
               /\ ret.current_streak = 0
               /\ ret.longest_streak = 0
               /\ ~ret.is_active_today
        /\ call.op = "calculate_momentum" =>
               /\ ret.this_week_commits = 0
               /\ ret.last_week_commits = 0
               /\ ret.week_over_week_change.num = 0
               /\ ret.week_over_week_change.den > 0
               /\ Len(ret.daily_trend) = call.days
               /\ \A k \in 1..Len(ret.daily_trend) : ret.daily_trend[k] = 0
               /\ ret.average_daily.num = 0
               /\ ret.average_daily.den > 0
               /\ ret.performance_level = STARTING
        /\ (call.op = "get_historical_data"
              /\ call.chart_type \in {"daily", "weekly", "monthly"}) =>
               /\ ret.total_commits = 0
               /\ ret.peak_commits = 0
               /\ ret.trend_direction = "stable"
               /\ ret.trend_percentage.num = 0
               /\ ret.trend_percentage.den > 0
               /\ \A k \in 1..Len(ret.periods) : ret.periods[k].commits = 0
        /\ call.op = "get_hall_of_fame" =>
               /\ ret.best_single_day_commits.value = 0
               /\ ret.best_single_day_lines.value = 0
               /\ ret.best_week_commits.value = 0
               /\ ret.record_chase_progress.num = 0
               /\ ret.record_chase_progress.den > 0
        /\ call.op = "get_achievements" =>
               \A k \in 1..Len(ret) :
                   /\ ret[k].unlocked_date = NoDate
                   /\ Len(ret[k].progress) = 1
                   /\ ret[k].progress[1].num = 0
                   /\ ret[k].progress[1].den > 0
        /\ call.op = "get_goal_progress" =>
               /\ ret.daily_current = 0 /\ ret.daily_progress.num = 0
               /\ ret.weekly_current = 0 /\ ret.weekly_progress.num = 0
               /\ ret.monthly_current = 0 /\ ret.monthly_progress.num = 0
        /\ call.op = "generate_heatmap_data" =>
               \A d \in DOMAIN ret : ret[d] = 0

\* the weekly chart of an empty table: 13 weeks of 0
C18_Witness ==
    /\ commits = {}
    /\ call.op = "get_historical_data"
    /\ call.chart_type = "weekly"
    /\ Len(ret.periods) = 13
    /\ ret.trend_direction = "stable"

\* C19: get_historical_data raises ValueError for every chart_type other than
\* 'daily', 'weekly' and 'monthly', whatever periods and the tables are, and
\* returns no chart of some default type; for the three types it returns a
\* chart of that type.
C19_InvalidChartTypeRaises ==
    call.op = "get_historical_data" =>
        IF call.chart_type \in {"daily", "weekly", "monthly"}
        THEN /\ "raised" \notin DOMAIN ret
             /\ ret.chart_type = call.chart_type
        ELSE /\ DOMAIN ret = {"raised", "chart_type"}
             /\ ret.raised = "ValueError"
             /\ ret.chart_type = call.chart_type

\* 'yearly' asked for with 2 periods on a table with rows
C19_Witness ==
    /\ call.op = "get_historical_data"
    /\ call.chart_type = "yearly"
    /\ call.periods = 2
    /\ commits # {}
    /\ ret.raised = "ValueError"

\* the (repo, day) pairs of a backfill run for which git reports commits
ScannedPairs(c) ==
    { p \in { <<c.repos[i], o>> : i \in 1..Len(c.repos),
                                   o \in (c.today - (c.days - 1))..c.today } :
        c.scan[p] > 0 }

\* C20: after a backfill run with force and without dry_run, the record of
\* every (repo, date) of the range for which the scan finds commits holds the
\* scanned count and line totals, whether or not the pair had a record
\* before, and database_entries is the number of these pairs.
C20_ForceBackfillOverwrites ==
    (call.op = "backfill_history" /\ call.force /\ ~call.dry_run) =>
        /\ \A p \in ScannedPairs(call) :
               \E row \in commits :
                   /\ row.repo = p[1]
                   /\ row.date = isoformat(p[2])
                   /\ row.count = call.scan[p]
                   /\ row.lines_added = ScannedLinesAdded(call.scan[p])
                   /\ row.lines_deleted = ScannedLinesDeleted(call.scan[p])
        /\ ret.database_entries = Cardinality(ScannedPairs(call))

\* the table a second run of the backfill of call c would leave
RunAgain(c) ==
    backfill_history(commits, c.days, c.repos, c.scan, c.dry_run, c.force, c.today).table

\* C21: a backfill run with dry_run leaves table commits as it was; a run
\* without force keeps every row the table held before it, each (repo, date)
\* keeping one row; and after a run without force, the same run once more
\* leaves the table as the first run left it.
C21_BackfillKeepsExistingRecords ==
    /\ [][(call'.op = "backfill_history" /\ call'.dry_run) => commits' = commits]_vars
    /\ [][(call'.op = "backfill_history" /\ ~call'.force) =>
              /\ commits \subseteq commits'
              /\ \A a \in commits', b \in commits' :
                     (a.repo = b.repo /\ a.date = b.date) => a = b]_vars
    /\ []((call.op = "backfill_history" /\ ~call.force) => RunAgain(call) = commits)

\* a run without force and without dry_run met a record of one commit where
\* git reports two, kept it, and saved a record for another pair
C21_Witness ==
    /\ call.op = "backfill_history"
    /\ ~call.force
    /\ ~call.dry_run
    /\ \E p \in ScannedPairs(call) :
           \E row \in commits :
               row.repo = p[1] /\ row.date = isoformat(p[2]) /\ row.count = 1
    /\ \E p \in ScannedPairs(call) :
           \E row \in commits :
               row.repo = p[1] /\ row.date = isoformat(p[2]) /\ row.count = call.scan[p]

\* C22: _check_consistency_achievements(D) returns exactly one achievement,
\* of type 'weekly_consistency', whenever the 7 days D-6..D total 50 commits
\* or more (10 commits on each of them among the cases), whatever the
\* weekday of D.
C22_WeeklyConsistencyOfSevenDays ==
    call.op = "_check_consistency_achievements" =>
        LET D == strptime(call.date)
        IN  RangeTotal(commits, D - 6, D) >= WeeklyMilestone =>
                /\ Len(ret) = 1
                /\ ret[1].type = "weekly_consistency"

\* how many rows of sequence q equal row
CountOf(q, row) == Cardinality({ k \in 1..Len(q) : q[k] = row })

\* C23: get_recent_achievements(days) returns the saved achievements dated
\* in [today-days, today], each as often as it was saved, and no other; of
\* two returned achievements with different dates the one with the later
\* date comes first, in whatever order they were saved.
C23_RecentAchievementsLatestDateFirst ==
    call.op = "get_recent_achievements" =>
        LET inside == { i \in 1..Len(rewards) :
                          /\ call.today - call.days <= strptime(rewards[i].date)
                          /\ strptime(rewards[i].date) <= call.today }
        IN  /\ Len(ret) = Cardinality(inside)
            /\ \A i \in inside :
                   CountOf(ret, rewards[i])
                       = Cardinality({ j \in inside : rewards[j] = rewards[i] })
            /\ \A j \in 1..Len(ret), k \in 1..Len(ret) :
                   (j < k /\ ret[j].date # ret[k].date) =>
                       strptime(ret[j].date) > strptime(ret[k].date)

\* the dictionary get_active_streak returns for a row of table streaks
StreakDict(row) ==
    [start_date |-> row.start_date, end_date |-> row.end_date, length |-> row.length,
     type |-> row.type]

\* C24: get_active_streak() returns None when no saved streak has end_date
\* None, and otherwise the streak saved last among those saved with end_date
\* None, also when several were saved in the same second.
C24_ActiveStreakIsLastSaved ==
    call.op = "get_active_streak" =>
        LET open == { i \in 1..Len(streaks) : streaks[i].end_date = NoDate }
        IN  IF open = {} THEN ret = None
            ELSE ret = StreakDict(streaks[CHOOSE i \in open : \A j \in open : j <= i])

\* C25: on every store and for every reference date D, what
\* calculate_streak(D) returns is at most _get_longest_streak(), and in a
\* result of get_streak_data current_streak is at most longest_streak: the
\* greater of current_streak and longest_streak, the current value of
\* 'first_step', is longest_streak.
C25_CurrentStreakAtMostLongest ==
    /\ call.op = "calculate_streak" => ret <= _get_longest_streak(commits)
    /\ call.op = "get_streak_data" =>
           /\ ret.current_streak <= ret.longest_streak
           /\ Max2(ret.current_streak, ret.longest_streak) = ret.longest_streak

\* a streak of at least a day ends at D while a longer one lies before it
C25_Witness ==
    /\ call.op = "get_streak_data"
    /\ ret.current_streak >= 1
    /\ ret.longest_streak > ret.current_streak

\* C26: after track_date(D) on a store with no record for D,
\* get_total_commits_by_date(D) is result['total_commits'], and for every
\* entry of result['repositories'] the record (repo, D) holds the entry's
\* count and line totals, also when two of the paths scanned have the same
\* base name.
C26_TrackedStoreAgreesWithResult ==
    [][(/\ call'.op = "track_date"
        /\ \A row \in commits : row.date # call'.target_date) =>
           /\ get_total_commits_by_date(commits', call'.target_date) = ret'.total_commits
           /\ \A k \in 1..Len(ret'.repositories) :
                  \E row \in commits' :
                      /\ row.repo = ret'.repositories[k].repo
                      /\ row.date = call'.target_date
                      /\ row.count = ret'.repositories[k].count
                      /\ row.lines_added = ret'.repositories[k].lines_added
                      /\ row.lines_deleted = ret'.repositories[k].lines_deleted]_vars

\* C27: in every result of calculate_momentum over 7 days, average_daily is
\* this_week_commits / 7, and the level is Legendary iff this_week_commits
\* >= 50 and consistency_score >= 6, Crushing or Legendary iff
\* this_week_commits >= 28 and consistency_score >= 5, Building or above iff
\* this_week_commits >= 14 and consistency_score >= 3.
C27_LevelsOfRealWeeks ==
    (call.op = "calculate_momentum" /\ call.days = 7) =>
        /\ FracEq(ret.average_daily, Frac(ret.this_week_commits, 7))
        /\ ret.performance_level = LEGENDARY
               <=> (ret.this_week_commits >= 50 /\ ret.consistency_score >= 6)
        /\ ret.performance_level \in {CRUSHING, LEGENDARY}
               <=> (ret.this_week_commits >= 28 /\ ret.consistency_score >= 5)
        /\ ret.performance_level \in {BUILDING, CRUSHING, LEGENDARY}
               <=> (ret.this_week_commits >= 14 /\ ret.consistency_score >= 3)

\* a week of 25..27 commits on 5 or more days is classified Building
C27_Witness ==
    /\ call.op = "calculate_momentum"
    /\ call.days = 7
    /\ ret.this_week_commits \in 25..27
    /\ ret.consistency_score >= 5
    /\ ret.performance_level = BUILDING

\* C28: for a store of non-negative counts and a reference date D, in the
\* hall of fame current_day_commits <= best_single_day_commits.value
\* <= best_week_commits.value and current_day_lines
\* <= best_single_day_lines.value, and this_week_commits of
\* calculate_momentum(D) is at most best_week_commits.value.
C28_RecordsDominateCurrentValues ==
    call.op = "get_hall_of_fame" =>
        /\ ret.current_day_commits <= ret.best_single_day_commits.value
        /\ ret.best_single_day_commits.value <= ret.best_week_commits.value
        /\ ret.current_day_lines <= ret.best_single_day_lines.value
        /\ calculate_momentum(commits, call.target_date, DefaultDays).this_week_commits
               <= ret.best_week_commits.value

\* the store has more dates than the frame has rows, D has lines and is
\* not the best day by commits, which is not the best day by lines, and the
\* week ending at D is not the best week
C28_Witness ==
    /\ call.op = "get_hall_of_fame"
    /\ Cardinality({ r.date : r \in commits }) > 7
    /\ 0 < ret.current_day_commits
    /\ ret.current_day_commits < ret.best_single_day_commits.value
    /\ 0 < ret.current_day_lines
    /\ ret.best_single_day_lines.date # ret.best_single_day_commits.date
    /\ calculate_momentum(commits, call.target_date, DefaultDays).this_week_commits
           < ret.best_week_commits.value
    /\ ret.best_week_commits.value < SumCount(commits)

\* the achievement of identity id is unlocked in the list result
Unlocked(result, id) ==
    \E k \in 1..Len(result) : result[k].id = id /\ result[k].unlocked_date # NoDate

\* each achievement of the list ids that is unlocked has the next one unlocked
Nested(result, ids) ==
    \A k \in 1..(Len(ids) - 1) : Unlocked(result, ids[k]) => Unlocked(result, ids[k + 1])

\* C29: in every result of get_achievements the unlocks of a family are
\* nested: code_warrior => streak_master => consistent_coder => fire_starter
\* => first_step; commit_legend => commit_hurricane => commit_storm =>
\* commit_surge; line_god => coding_machine => code_beast => line_crusher;
\* and consistent_coder => perfect_week.
C29_UnlocksAreNested ==
    call.op = "get_achievements" =>
        /\ Nested(ret, <<"code_warrior", "streak_master", "consistent_coder",
                         "fire_starter", "first_step">>)
        /\ Nested(ret, <<"commit_legend", "commit_hurricane", "commit_storm",
                         "commit_surge">>)
        /\ Nested(ret, <<"line_god", "coding_machine", "code_beast", "line_crusher">>)
        /\ Nested(ret, <<"consistent_coder", "perfect_week">>)

\* every family is unlocked in part: a streak of 21 to 29 days, a best day
\* of 8 to 11 commits and of 5,000 to 9,999 lines
C29_Witness ==
    /\ call.op = "get_achievements"
    /\ Unlocked(ret, "streak_master") /\ ~Unlocked(ret, "code_warrior")
    /\ Unlocked(ret, "commit_storm") /\ ~Unlocked(ret, "commit_hurricane")
    /\ Unlocked(ret, "code_beast") /\ ~Unlocked(ret, "coding_machine")
    /\ Unlocked(ret, "perfect_week")

\* C30: for a chart type of daily, weekly, monthly and a period count N >= 0
\* passed explicitly, get_historical_data returns exactly N periods; for
\* N = 0 the periods are empty with total 0, peak 0, average 0 and trend
\* 'stable' 0; for N = 1 the trend is 'stable' 0; peak_commits is at most
\* total_commits and average_commits times the number of periods is
\* total_commits.
C30_ExactlyNPeriods ==
    (/\ call.op = "get_historical_data"
     /\ call.chart_type \in {"daily", "weekly", "monthly"}
     /\ call.periods >= 0) =>
        /\ Len(ret.periods) = call.periods
        /\ call.periods = 0 =>
               /\ ret.periods = <<>>
               /\ ret.total_commits = 0
               /\ ret.peak_commits = 0
               /\ FracEq(ret.average_commits, Frac(0, 1))
               /\ ret.trend_direction = "stable"
               /\ FracEq(ret.trend_percentage, Frac(0, 1))
        /\ call.periods = 1 =>
               /\ ret.trend_direction = "stable"
               /\ FracEq(ret.trend_percentage, Frac(0, 1))
        /\ ret.peak_commits <= ret.total_commits
        /\ FracEq(FracTimesInt(ret.average_commits, Len(ret.periods)),
                  Frac(ret.total_commits, 1))

=============================================================================
